---- MODULE Spec2Model ----
(***************************************************************************)
(* Daily-facts backend: the scheduler's distribution and retry jobs, the   *)
(* notification service they call, and the personalization service.        *)
(*                                                                         *)
(*   Spec       the hourly distribution job: sendDailyFactToUser workers   *)
(*              (one per selected user, overlapping runs allowed)          *)
(*   SpecRetry  the retry job over the notifications table, with a clock   *)
(*   SpecP      calls of PersonalizationService.getPersonalizedFacts and   *)
(*              of SchedulerService.getPersonalizedFact on a fact table    *)
(*   SpecScore, SpecDiversity, SpecScenario, SpecCache, ...                *)
(*              calls of single functions and set scenarios, each          *)
(*              described where it is defined                              *)
(***************************************************************************)
EXTENDS Integers, Sequences, FiniteSets, TLC

VARIABLES
  now,            \* the clock (new Date()), in minutes
  users,          \* table users
  facts,          \* table facts
  userCategories, \* table user_categories: the enabled categories of a user
  userFacts,      \* table user_facts: the (user, fact) interaction rows
  notifications,  \* table notifications, in creation order
  dist,           \* the running sendDailyFactToUser invocations
  retry,          \* the running retryFailedNotifications invocations
  call,           \* the last personalization call and what it returned
  redis,          \* the Redis keys user_profile:<id> and fact_scores:<id>
  scheduler,      \* the SchedulerService: isRunning, jobs, and the runs of the handlers
  requests        \* the HTTP requests the controllers are handling

vars == <<now, users, facts, userCategories, userFacts, notifications, dist, retry, call, redis, scheduler, requests>>

(***************************************************************************)
(* Bounds of the model.                                                    *)
(***************************************************************************)
NumFacts == 3
MaxCap == 2
MaxNotifications == 3
MaxNow == 80
MaxLimit == 2

(***************************************************************************)
(* Universes.                                                              *)
(***************************************************************************)
Users == {"u1", "u2"}
FactIds == 1..NumFacts
Workers == {"w1", "w2"}
Runners == {"r1"}

\* a nullable fact reference / a nullable timestamp (SQL NULL)
NoFact == 0
NoTime == -1

difficultyOrder == <<"EASY", "MEDIUM", "HARD", "EXPERT">>

Min(a, b) == IF a < b THEN a ELSE b
Max(a, b) == IF a > b THEN a ELSE b

\* the first n elements of a sequence (Prisma's take, Array.prototype.slice(0, n))
Take(s, n) == SubSeq(s, 1, Min(Len(s), n))

Range(s) == {s[i] : i \in 1..Len(s)}

\* every ordering of the finite set S in which no element that must come
\* Before another one comes after it: an ORDER BY whose ties the database
\* may return in any order
Orderings(S, Before(_, _)) ==
  LET ord[T \in SUBSET S] ==
        IF T = {} THEN {<<>>}
        ELSE UNION {{<<m>> \o rest : rest \in ord[T \ {m}]} :
                      m \in {x \in T : \A y \in T : ~Before(y, x)}}
  IN ord[S]

(***************************************************************************)
(* Queries on the fact table.                                              *)
(***************************************************************************)
\* the rows of the facts table
AllFacts == DOMAIN facts

\* where: { isApproved: true, isActive: true, publishedAt: { lte: new Date() } }
\* (a NULL publishedAt matches no lte filter)
Eligible(f) ==
  /\ facts[f].isApproved
  /\ facts[f].isActive
  /\ facts[f].publishedAt # NoTime
  /\ facts[f].publishedAt <= now

\* user_facts rows of user u with isViewed = true, as fact ids
ViewedFactIds(u) == {f \in AllFacts : userFacts[u][f].isViewed}

\* orderBy: [{ isFeatured: 'desc' }, { createdAt: 'desc' }]
FeaturedThenNewest(a, b) ==
  \/ facts[a].isFeatured /\ ~facts[b].isFeatured
  \/ facts[a].isFeatured = facts[b].isFeatured /\ facts[a].createdAt > facts[b].createdAt

\* orderBy: { createdAt: 'desc' }
Newest(a, b) == facts[a].createdAt > facts[b].createdAt


(***************************************************************************)
(* SchedulerService.getPersonalizedFact: the fact the distribution job     *)
(* picks for one user.  The operator gives every value the call can        *)
(* return (Math.random picks the index), NoFact for null.                  *)
(***************************************************************************)
CandidateTake == 10
FallbackTake == 5

\* difficulty: user.difficultyLevel || 'MEDIUM'
DifficultyOrMedium(d) == IF d = "" THEN "MEDIUM" ELSE d

\* the rows matching whereClause; withId says whether whereClause.id is still set
SchedulerWhere(u, withId) ==
  {f \in AllFacts :
     /\ Eligible(f)
     /\ facts[f].difficulty = DifficultyOrMedium(users[u].difficultyLevel)
     /\ (userCategories[u] # {} => facts[f].categoryId \in userCategories[u])
     /\ (withId /\ ViewedFactIds(u) # {} => f \notin ViewedFactIds(u))}

\* second query: delete whereClause.id, take 5, newest first, random element or null
SchedulerFallbackFact(u) ==
  IF SchedulerWhere(u, FALSE) = {} THEN {NoFact}
  ELSE UNION {Range(Take(p, FallbackTake)) : p \in Orderings(SchedulerWhere(u, FALSE), Newest)}

getPersonalizedFact(u, queryFails) ==
  IF queryFails THEN {NoFact}
  ELSE IF SchedulerWhere(u, TRUE) = {} THEN SchedulerFallbackFact(u)
  ELSE UNION {Range(Take(p, CandidateTake)) :
                p \in Orderings(SchedulerWhere(u, TRUE), FeaturedThenNewest)}

(***************************************************************************)
(* The hourly distribution job.                                            *)
(***************************************************************************)
Hours == 0..23

\* mutant: the offset of the timezone is added instead of taken off
userHourUTC_added(u) ==
  ((users[u].dailyNotificationTime + users[u].utcOffset) % (24 * 60)) \div 60

\* moment.tz(user.dailyNotificationTime, 'HH:mm', user.timezone).utc().hour():
\* the time of day and the offset of the timezone from UTC are in minutes
userHourUTC(u) ==
  ((users[u].dailyNotificationTime - users[u].utcOffset) % (24 * 60)) \div 60

\* distributeDailyFacts: the users a tick at UTC hour currentHour processes
usersToNotify(currentHour, isWeekend) ==
  {u \in DOMAIN users :
     /\ users[u].isActive
     /\ users[u].notificationsEnabled
     /\ userHourUTC(u) = currentHour
     /\ ~(isWeekend /\ ~users[u].weekendNotifications)}

\* prisma.notification.count of sendDailyFactToUser: the user's notifications
\* created today with status SENT or DELIVERED
todayNotifications(u) ==
  Cardinality({i \in 1..Len(notifications) :
     /\ notifications[i].userId = u
     /\ notifications[i].createdAt = "today"
     /\ notifications[i].status \in {"SENT", "DELIVERED"}})

\* mutant: the cap check lets a user at the cap through
CapReached_strict(count, maxPerDay) == count > maxPerDay

\* if (todayNotifications >= user.maxNotificationsPerDay) return
CapReached(count, maxPerDay) == count >= maxPerDay

\* no request is being handled
NoRequests == <<>>

\* the six jobs of start()
JobNames ==
  {"daily-facts-distribution", "retry-failed-notifications", "cleanup-expired-sessions",
   "cleanup-old-notifications", "update-user-streaks", "generate-analytics"}

NoRun == [pc |-> "idle", outcome |-> "none"]

\* constructor(): this.jobs = new Map(); this.isRunning = false.  runs[name] is
\* the callback of the task of that name: whether it is running and how its
\* last run ended
NewScheduler ==
  [isRunning |-> FALSE, jobs |-> <<>>, runs |-> [name \in JobNames |-> NoRun]]

IdleRunner == [pc |-> "idle", startedAt |-> 0, failedNotifications |-> <<>>]

IdleWorker ==
  [pc |-> "idle", user |-> "u1", maxNotificationsPerDay |-> 0, count |-> 0,
   fact |-> NoFact, record |-> 0, result |-> "none", outcome |-> "none"]

\* a tick (or an overlapping, re-triggered tick) calls sendDailyFactToUser(user)
StartSendDailyFactToUser(w, u) ==
  /\ dist[w].pc = "idle"
  /\ \E currentHour \in Hours, isWeekend \in BOOLEAN : u \in usersToNotify(currentHour, isWeekend)
  /\ dist' = [dist EXCEPT ![w] = [IdleWorker EXCEPT
                !.pc = "count", !.user = u,
                !.maxNotificationsPerDay = users[u].maxNotificationsPerDay]]
  /\ UNCHANGED <<requests, scheduler, redis, now, users, facts, userCategories, userFacts, notifications, retry, call>>

\* the count query and the cap check after it
CountTodayNotifications(w) ==
  /\ dist[w].pc = "count"
  /\ LET c == todayNotifications(dist[w].user) IN
       dist' = [dist EXCEPT ![w] =
                  IF CapReached(c, dist[w].maxNotificationsPerDay)
                  THEN [@ EXCEPT !.count = c, !.pc = "done", !.outcome = "capped"]
                  ELSE [@ EXCEPT !.count = c, !.pc = "select"]]
  /\ UNCHANGED <<requests, scheduler, redis, now, users, facts, userCategories, userFacts, notifications, retry, call>>

\* const fact = await this.getPersonalizedFact(user); if (!fact) return
SelectFact(w) ==
  /\ dist[w].pc = "select"
  /\ \E queryFails \in BOOLEAN : \E f \in getPersonalizedFact(dist[w].user, queryFails) :
       dist' = [dist EXCEPT ![w] =
                  IF f = NoFact
                  THEN [@ EXCEPT !.pc = "done", !.outcome = "nofact"]
                  ELSE [@ EXCEPT !.pc = "notify", !.fact = f]]
  /\ UNCHANGED <<requests, scheduler, redis, now, users, facts, userCategories, userFacts, notifications, retry, call>>

\* mutant: the user has one device token
fcmTokens_populated == <<"token">>

\* const fcmTokens = []
fcmTokens == <<>>

\* prisma.notification.create of sendDailyFactNotification
NewNotification(u, f) ==
  [id |-> Len(notifications) + 1, userId |-> u, factId |-> f, status |-> "PENDING",
   retryCount |-> 0, nextRetryAt |-> NoTime, sentAt |-> NoTime,
   createdAt |-> "today", errorMessage |-> ""]

\* prisma.notification.update of sendDailyFactNotification, after the send
RecordOutcome(n, result) ==
  [n EXCEPT !.status = IF result = "success" THEN "SENT" ELSE "FAILED",
            !.sentAt = IF result = "success" THEN now ELSE NoTime,
            !.errorMessage = IF result = "success" THEN "" ELSE result]

\* sendDailyFactNotification(user.id, fact), one await at a time: the session
\* query and the token check ("notify", which also creates the record when there
\* are tokens), the push ("push") and the update of the record ("update").
\* With fcmTokens as the source sets it the call returns at the token check.
sendDailyFactNotification(w) ==
  /\ dist[w].pc \in {"notify", "push", "update"}
  /\ IF dist[w].pc = "notify"
     THEN IF Len(fcmTokens) = 0
          THEN /\ dist' = [dist EXCEPT ![w] = [@ EXCEPT !.pc = "done", !.outcome = "returned",
                                                        !.result = "No FCM tokens"]]
               /\ UNCHANGED notifications
          ELSE /\ Len(notifications) < MaxNotifications
               /\ notifications' = Append(notifications, NewNotification(dist[w].user, dist[w].fact))
               /\ dist' = [dist EXCEPT ![w] = [@ EXCEPT !.pc = "push",
                                                        !.record = Len(notifications) + 1]]
     ELSE IF dist[w].pc = "push"
     THEN /\ \E result \in {"success", "send failed"} :
               dist' = [dist EXCEPT ![w] = [@ EXCEPT !.pc = "update", !.result = result]]
          /\ UNCHANGED notifications
     ELSE /\ notifications' = [notifications EXCEPT ![dist[w].record] =
                                 RecordOutcome(@, dist[w].result)]
          /\ dist' = [dist EXCEPT ![w] = [@ EXCEPT !.pc = "done", !.outcome = "returned"]]
  /\ UNCHANGED <<requests, scheduler, redis, now, users, facts, userCategories, userFacts, retry, call>>

\* mutant: the catch block of sendDailyFactToUser throws the error again
CaughtOutcome_rethrown == "rejected"

\* catch (error) { logger.error(...) } of sendDailyFactToUser: the error is
\* logged and the promise of the call is fulfilled
CaughtOutcome == "caught"

\* an await of sendDailyFactToUser throws: the count query, or the session
\* query, the record creation, the send or the status update of
\* sendDailyFactNotification, which logs the error and throws it again
ThrowInSendDailyFactToUser(w) ==
  /\ dist[w].pc \in {"count", "notify", "push", "update"}
  /\ dist' = [dist EXCEPT ![w] = [@ EXCEPT !.pc = "done", !.outcome = CaughtOutcome]]
  /\ UNCHANGED <<requests, scheduler, redis, now, users, facts, userCategories, userFacts, notifications, retry, call>>

\* sendDailyFactToUser returns; the worker is free for a later tick
FinishSendDailyFactToUser(w) ==
  /\ dist[w].pc = "done"
  /\ dist' = [dist EXCEPT ![w] = IdleWorker]
  /\ UNCHANGED <<requests, scheduler, redis, now, users, facts, userCategories, userFacts, notifications, retry, call>>


(***************************************************************************)
(* The retry job: notificationService.retryFailedNotifications.            *)
(***************************************************************************)
MaxRetries == 3
RetryTake == 50
BackoffBaseMinutes == 5
ClockStep == 10

RECURSIVE Pow2(_)
Pow2(n) == IF n = 0 THEN 1 ELSE 2 * Pow2(n - 1)

\* mutant: retryCount lte 3 instead of lt 3
RetrySelects_inclusive(n) ==
  /\ n.status = "FAILED"
  /\ n.retryCount <= 3
  /\ n.nextRetryAt # -1
  /\ n.nextRetryAt <= now

\* mutant: no retryCount filter
RetrySelects_unbounded(n) ==
  /\ n.status = "FAILED"
  /\ n.nextRetryAt # -1
  /\ n.nextRetryAt <= now

\* where: { status: 'FAILED', retryCount: { lt: 3 }, nextRetryAt: { lte: new Date() } }
\* (a NULL nextRetryAt matches no lte filter)
RetrySelects(n) ==
  /\ n.status = "FAILED"
  /\ n.retryCount < MaxRetries
  /\ n.nextRetryAt # NoTime
  /\ n.nextRetryAt <= now

\* what findMany hands to the loop for row i: the row as read, with
\* include: { user: { select: { notificationsEnabled } } }
RetrySnapshot(i) ==
  [id |-> i, retryCount |-> notifications[i].retryCount,
   userEnabled |-> users[notifications[i].userId].notificationsEnabled]

\* mutant: the same delay after every retry
NextRetryAt_fixed(retryCount) == now + 2 * BackoffBaseMinutes

\* Math.pow(2, notification.retryCount + 1) * 5 minutes after new Date()
NextRetryAt(retryCount) == now + Pow2(retryCount + 1) * BackoffBaseMinutes

\* data: { retryCount: { increment: 1 }, nextRetryAt }
AdvanceRetry(n, snapshot) ==
  [n EXCEPT !.retryCount = @ + 1, !.nextRetryAt = NextRetryAt(snapshot.retryCount)]

\* mutant: the cancelling update also counts as a retry
CancelNotification_counted(n) ==
  [n EXCEPT !.status = "CANCELLED", !.retryCount = @ + 1, !.nextRetryAt = now]

\* data: { status: 'CANCELLED' }
CancelNotification(n) == [n EXCEPT !.status = "CANCELLED"]

\* the findMany of a tick: up to 50 matching rows, in the order the database
\* returns them (no orderBy)
StartRetryFailedNotifications(r) ==
  /\ retry[r].pc = "idle"
  /\ \E p \in Orderings({i \in 1..Len(notifications) : RetrySelects(notifications[i])},
                        LAMBDA a, b : FALSE) :
       retry' = [retry EXCEPT ![r] =
                   [pc |-> "loop", startedAt |-> now,
                    failedNotifications |-> Take([k \in 1..Len(p) |-> RetrySnapshot(p[k])], RetryTake)]]
  /\ UNCHANGED <<requests, scheduler, redis, now, users, facts, userCategories, userFacts, notifications, dist, call>>

\* one iteration of the for loop: the update of the next notification read.
\* The CANCELLED update is outside the inner try: when it throws the tick ends.
\* The retry update is inside it: when it throws the loop goes on.
RetryNotification(r) ==
  /\ retry[r].pc = "loop"
  /\ retry[r].failedNotifications # <<>>
  /\ LET n == Head(retry[r].failedNotifications)
         rest == Tail(retry[r].failedNotifications)
     IN \E updateThrows \in BOOLEAN :
          IF ~n.userEnabled
          THEN IF updateThrows
               THEN /\ retry' = [retry EXCEPT ![r] = IdleRunner]
                    /\ UNCHANGED notifications
               ELSE /\ notifications' = [notifications EXCEPT ![n.id] = CancelNotification(@)]
                    /\ retry' = [retry EXCEPT ![r].failedNotifications = rest]
          ELSE IF updateThrows
               THEN /\ retry' = [retry EXCEPT ![r].failedNotifications = rest]
                    /\ UNCHANGED notifications
               ELSE /\ notifications' = [notifications EXCEPT ![n.id] = AdvanceRetry(@, n)]
                    /\ retry' = [retry EXCEPT ![r].failedNotifications = rest]
  /\ UNCHANGED <<requests, scheduler, redis, now, users, facts, userCategories, userFacts, dist, call>>

\* return { processed: failedNotifications.length }
FinishRetryFailedNotifications(r) ==
  /\ retry[r].pc = "loop"
  /\ retry[r].failedNotifications = <<>>
  /\ retry' = [retry EXCEPT ![r] = IdleRunner]
  /\ UNCHANGED <<requests, scheduler, redis, now, users, facts, userCategories, userFacts, notifications, dist, call>>

\* time passes
AdvanceClock ==
  /\ now + ClockStep <= MaxNow
  /\ now' = now + ClockStep
  /\ UNCHANGED <<requests, scheduler, redis, users, facts, userCategories, userFacts, notifications, dist, retry, call>>

\* updateNotificationSettings with a body that sets notificationsEnabled
updateNotificationSettings(u, notificationsEnabled) ==
  /\ users[u].notificationsEnabled # notificationsEnabled
  /\ users' = [users EXCEPT ![u].notificationsEnabled = notificationsEnabled]
  /\ UNCHANGED <<requests, scheduler, redis, now, facts, userCategories, userFacts, notifications, dist, retry, call>>

(***************************************************************************)
(* PersonalizationService.  Scores are fixed-point numbers: ScoreUnit is   *)
(* 1.0.  A repository call named in `fails` rejects during the call.       *)
(***************************************************************************)
ScoreUnit == 10000
MinutesPerDay == 24 * 60
SevenDays == 7 * 24 * 60
ThirtyDays == 30 * 24 * 60
PreferredTagsTake == 5
SimilarUsersTake == 5

\* mutant: config/redis also exports the two cache functions
redisExports_withCache ==
  {"client", "connectRedis", "disconnectRedis", "cache", "cacheKeys", "checkRedisHealth",
   "cacheGet", "cacheSet"}

\* module.exports of config/redis: what require('../config/redis') has
redisExports == {"client", "connectRedis", "disconnectRedis", "cache", "cacheKeys", "checkRedisHealth"}

\* the keys user_profile:<userId> and fact_scores:<userId> of the Redis store:
\* a user id missing from the domain has no entry
EmptyCache == [profiles |-> <<>>, scores |-> <<>>]

\* const { cacheGet, cacheSet } = require('../config/redis'): calling a name
\* the module does not export throws a TypeError
\* mutant: cacheGet can be called
cacheGetThrows_never == FALSE

cacheGetThrows == "cacheGet" \notin redisExports
cacheSetThrows == "cacheSet" \notin redisExports

\* mutant: the fallback list in the order of the candidate query
FallbackOrder_newest(a, b) == FeaturedThenNewest(a, b)

\* getFallbackFacts: orderBy [{ isFeatured: 'desc' }, { likeCount: 'desc' }, { viewCount: 'desc' }]
FallbackOrder(a, b) ==
  \/ facts[a].isFeatured /\ ~facts[b].isFeatured
  \/ /\ facts[a].isFeatured = facts[b].isFeatured
     /\ \/ facts[a].likeCount > facts[b].likeCount
        \/ /\ facts[a].likeCount = facts[b].likeCount
           /\ facts[a].viewCount > facts[b].viewCount

\* getFallbackFacts: where { isApproved, isActive, publishedAt <= now }
FallbackWhere(f) == Eligible(f)

\* getFallbackFacts(limit): every list the call can return ([] when the query fails)
getFallbackFacts(limit, fails) ==
  IF "fallback.findMany" \in fails THEN {<<>>}
  ELSE {Take(p, limit) : p \in Orderings({f \in AllFacts : FallbackWhere(f)}, FallbackOrder)}

ZeroStats ==
  [totalViewed |-> 0, totalLiked |-> 0, totalBookmarked |-> 0, totalShared |-> 0,
   recentActivity |-> 0, likeRate |-> 0, bookmarkRate |-> 0, shareRate |-> 0,
   engagementScore |-> 0]

getUserInteractionStats(u, fails) ==
  IF "stats.count" \in fails THEN ZeroStats
  ELSE LET totalViewed == Cardinality({f \in AllFacts : userFacts[u][f].isViewed})
           totalLiked == Cardinality({f \in AllFacts : userFacts[u][f].isLiked})
           totalBookmarked == Cardinality({f \in AllFacts : userFacts[u][f].isBookmarked})
           totalShared == Cardinality({f \in AllFacts : userFacts[u][f].isShared})
           Rate(n) == IF totalViewed > 0 THEN (n * ScoreUnit) \div totalViewed ELSE 0
       IN [totalViewed |-> totalViewed, totalLiked |-> totalLiked,
           totalBookmarked |-> totalBookmarked, totalShared |-> totalShared,
           recentActivity |-> Cardinality({f \in AllFacts :
                                 /\ userFacts[u][f].isViewed
                                 /\ userFacts[u][f].viewedAt >= now - ThirtyDays}),
           likeRate |-> Rate(totalLiked), bookmarkRate |-> Rate(totalBookmarked),
           shareRate |-> Rate(totalShared),
           engagementScore |-> (Rate(totalLiked) * 4 + Rate(totalBookmarked) * 4
                                + Rate(totalShared) * 2) \div 10]

\* recentViews of getUserLearningPatterns: the facts viewed in the last 7 days
recentViews(u) ==
  {f \in AllFacts : userFacts[u][f].isViewed /\ userFacts[u][f].viewedAt >= now - SevenDays}

\* analyzeTopicDiversity
analyzeTopicDiversity(views) ==
  IF views = {} THEN 0
  ELSE (Cardinality({facts[f].categoryId : f \in views}) * ScoreUnit)
         \div Min(Cardinality(views), 8)

\* analyzeTagPreferences: the tags among the five most frequent ones of the
\* views (tags tied at the fifth place are all kept)
analyzeTagPreferences(views) ==
  LET tagsSeen == UNION {facts[f].tags : f \in views}
      Freq(t) == Cardinality({f \in views : t \in facts[f].tags})
  IN {t \in tagsSeen : Cardinality({t2 \in tagsSeen : Freq(t2) > Freq(t)}) < PreferredTagsTake}

RECURSIVE SumDeviation(_, _, _)
\* sum over i >= k of |(times[i] - times[i-1]) * (n - 1) - timeSpan|
SumDeviation(times, k, timeSpan) ==
  IF k > Len(times) THEN 0
  ELSE LET d == (times[k] - times[k - 1]) * (Len(times) - 1) - timeSpan
       IN (IF d < 0 THEN -d ELSE d) + SumDeviation(times, k + 1, timeSpan)

\* calculateConsistencyScore
calculateConsistencyScore(u, views) ==
  IF Cardinality(views) < 3 THEN 0
  ELSE LET p == CHOOSE q \in Orderings(views,
                     LAMBDA a, b : userFacts[u][a].viewedAt < userFacts[u][b].viewedAt) : TRUE
           viewDates == [k \in 1..Len(p) |-> userFacts[u][p[k]].viewedAt]
           timeSpan == viewDates[Len(viewDates)] - viewDates[1]
       IN IF timeSpan = 0 THEN ScoreUnit
          ELSE Max(0, ScoreUnit - (SumDeviation(viewDates, 2, timeSpan) * ScoreUnit)
                                    \div (timeSpan * (Len(viewDates) - 1)))

NeutralPatterns ==
  [topicDiversity |-> ScoreUnit \div 2, preferredTags |-> {}, learningVelocity |-> 0,
   consistencyScore |-> 0]

getUserLearningPatterns(u, fails) ==
  IF "patterns.findMany" \in fails THEN NeutralPatterns
  ELSE [topicDiversity |-> analyzeTopicDiversity(recentViews(u)),
        preferredTags |-> analyzeTagPreferences(recentViews(u)),
        learningVelocity |-> (Cardinality(recentViews(u)) * ScoreUnit) \div 7,
        consistencyScore |-> calculateConsistencyScore(u, recentViews(u))]

calculatePersonalityScore(stats, patterns) ==
  LET score == (ScoreUnit \div 2)
               + (IF stats.engagementScore * 10 > ScoreUnit * 7 THEN ScoreUnit \div 5 ELSE 0)
               + (IF stats.shareRate * 10 > ScoreUnit THEN ScoreUnit \div 10 ELSE 0)
               + (IF patterns.consistencyScore * 10 > ScoreUnit * 8 THEN ScoreUnit \div 10 ELSE 0)
               + (IF patterns.topicDiversity * 10 > ScoreUnit * 6 THEN ScoreUnit \div 10 ELSE 0)
  IN Min(ScoreUnit, Max(0, score))

\* cp.engagementScore || 0: no code writes user_categories.engagementScore
categoryEngagement(u, c) == 0

NoProfile ==
  [exists |-> FALSE, difficultyLevel |-> "", currentStreak |-> 0, longestStreak |-> 0,
   preferredCategories |-> {}, categoryPreferences |-> <<>>,
   interactionStats |-> ZeroStats,
   learningPatterns |-> NeutralPatterns, personalityScore |-> 0]

\* getUserProfile: the profile, or NoProfile for null.  The cache lookup comes
\* first and is inside the try block.
getUserProfile(u, fails, cache) ==
  IF cacheGetThrows THEN NoProfile
  ELSE IF u \in DOMAIN cache.profiles THEN cache.profiles[u]
  ELSE IF "user.findUnique" \in fails \/ u \notin Users THEN NoProfile
  ELSE IF "userCategory.findMany" \in fails THEN NoProfile
  ELSE IF cacheSetThrows THEN NoProfile
  ELSE LET stats == getUserInteractionStats(u, fails)
           patterns == getUserLearningPatterns(u, fails)
       IN [exists |-> TRUE, difficultyLevel |-> users[u].difficultyLevel,
           currentStreak |-> users[u].currentStreak,
           longestStreak |-> users[u].longestStreak,
           preferredCategories |-> userCategories[u],
           categoryPreferences |-> [c \in userCategories[u] |-> categoryEngagement(u, c)],
           interactionStats |-> stats, learningPatterns |-> patterns,
           personalityScore |-> calculatePersonalityScore(stats, patterns)]

\* indexOf in difficultyOrder (-1 when absent)
DifficultyIndex(d) ==
  IF \E k \in 1..Len(difficultyOrder) : difficultyOrder[k] = d
  THEN (CHOOSE k \in 1..Len(difficultyOrder) : difficultyOrder[k] = d) - 1
  ELSE -1

Abs(x) == IF x < 0 THEN -x ELSE x

calculateDifficultyMatch(factDifficulty, profile) ==
  LET gap == Abs(DifficultyIndex(factDifficulty) - DifficultyIndex(profile.difficultyLevel))
  IN IF gap = 0 THEN ScoreUnit
     ELSE IF gap = 1 THEN (ScoreUnit * 7) \div 10
     ELSE IF gap = 2 THEN (ScoreUnit * 4) \div 10
     ELSE ScoreUnit \div 10

calculateTagScore(factTags, preferredTags) ==
  IF factTags = {} \/ preferredTags = {} THEN ScoreUnit \div 2
  ELSE (Cardinality(factTags \cap preferredTags) * ScoreUnit)
         \div Max(Cardinality(factTags), Cardinality(preferredTags))

calculatePopularityScore(f) ==
  Min(ScoreUnit, ((facts[f].viewCount + facts[f].likeCount * 2 + facts[f].shareCount * 3)
                   * ScoreUnit) \div 100)

\* 1 - daysSinceCreation / 365, floored at 0 (times are minutes; the whole
\* days and the rest of the day are divided apart to stay within 32 bits)
calculateFreshnessScore(createdAt) ==
  LET age == now - createdAt
  IN Max(0, ScoreUnit - (((age \div MinutesPerDay) * ScoreUnit) \div 365
                         + ((age % MinutesPerDay) * ScoreUnit) \div (MinutesPerDay * 365)))

calculatePersonalityMatch(personalityScore) == personalityScore \div 2 + ScoreUnit \div 2

\* mutant: the score is returned as summed
Clamp01_identity(score) == score

\* Math.min(1, Math.max(0, score))
Clamp01(score) == Min(ScoreUnit, Max(0, score))

\* calculateFactScore(fact, userProfile)
calculateFactScore(f, profile) ==
  LET category == IF facts[f].categoryId \in profile.preferredCategories
                  THEN (4 * (ScoreUnit \div 2 + profile.categoryPreferences[facts[f].categoryId] \div 2)) \div 10
                  ELSE (4 * (ScoreUnit \div 10)) \div 10
      score == category
               + calculateDifficultyMatch(facts[f].difficulty, profile) \div 4
               + (calculateTagScore(facts[f].tags, profile.learningPatterns.preferredTags) * 15) \div 100
               + calculatePopularityScore(f) \div 10
               + calculateFreshnessScore(facts[f].createdAt) \div 20
               + calculatePersonalityMatch(profile.personalityScore) \div 20
  IN Clamp01(score)

\* calculatePersonalizationScores: the id -> score map ({} when anything in
\* the try block throws: the cache lookup, the query, the cache write)
calculatePersonalizationScores(u, profile, fails, cache) ==
  IF cacheGetThrows THEN [f \in {} |-> 0]
  ELSE IF u \in DOMAIN cache.scores THEN cache.scores[u]
  ELSE IF "scores.findMany" \in fails \/ cacheSetThrows THEN [f \in {} |-> 0]
  ELSE [f \in {g \in AllFacts : Eligible(g)} |-> calculateFactScore(f, profile)]

\* getFactCandidates: the rows matching whereClause
CandidatesWhere(u, excludeViewed, difficulty, categoryFilters) ==
  {f \in AllFacts :
     /\ Eligible(f)
     /\ (excludeViewed /\ ViewedFactIds(u) # {} => f \notin ViewedFactIds(u))
     /\ (difficulty # "" => facts[f].difficulty = difficulty)
     /\ (categoryFilters # {} => facts[f].categoryId \in categoryFilters)}

\* getFactCandidates: every list the query can return (no try block: a failing
\* query rejects, see CandidatesThrow)
getFactCandidates(u, excludeViewed, difficulty, categoryFilters, limit) ==
  {Take(p, limit) :
     p \in Orderings(CandidatesWhere(u, excludeViewed, difficulty, categoryFilters),
                     FeaturedThenNewest)}

CandidatesThrow(excludeViewed, fails) ==
  \/ excludeViewed /\ "candidates.viewed" \in fails
  \/ "candidates.findMany" \in fails

\* factScores[fact.id] || 0
personalizedScore(f, factScores) == IF f \in DOMAIN factScores THEN factScores[f] ELSE 0

\* scoreAndRankFacts: sort by score, descending; Array.prototype.sort is stable
scoreAndRankFacts(candidates, factScores) ==
  LET p == CHOOSE q \in Orderings(1..Len(candidates),
              LAMBDA a, b :
                \/ personalizedScore(candidates[a], factScores) > personalizedScore(candidates[b], factScores)
                \/ /\ personalizedScore(candidates[a], factScores) = personalizedScore(candidates[b], factScores)
                   /\ a < b) : TRUE
  IN [k \in 1..Len(candidates) |-> candidates[p[k]]]

\* how many facts of the list have the key of fact f
CountWith(selected, Key(_), f) ==
  Cardinality({k \in 1..Len(selected) : Key(selected[k]) = Key(f)})

\* mutant: a category may fill half the list
maxPerCategory_half(limit) == Max(1, limit \div 2)

maxPerCategory(limit) == Max(1, limit \div 3)
maxPerDifficulty(limit) == Max(2, (limit * 2) \div 5)

RECURSIVE GreedyPass(_, _, _, _)
\* the first for loop of addDiversityToSelection, from position k on
GreedyPass(list, k, selected, limit) ==
  IF k > Len(list) \/ Len(selected) >= limit THEN selected
  ELSE IF \/ CountWith(selected, LAMBDA f : facts[f].categoryId, list[k]) >= maxPerCategory(limit)
          \/ CountWith(selected, LAMBDA f : facts[f].difficulty, list[k]) >= maxPerDifficulty(limit)
       THEN GreedyPass(list, k + 1, selected, limit)
       ELSE GreedyPass(list, k + 1, Append(selected, list[k]), limit)

RECURSIVE FillPass(_, _, _, _)
\* one run of the for loop inside the while loop, from position k on
FillPass(list, k, selected, limit) ==
  IF k > Len(list) \/ Len(selected) >= limit THEN selected
  ELSE IF list[k] \in Range(selected)
       THEN FillPass(list, k + 1, selected, limit)
       ELSE FillPass(list, k + 1, Append(selected, list[k]), limit)

RECURSIVE FillLoop(_, _, _)
\* while (selected.length < limit && selected.length < facts.length); a run of
\* the for loop that adds nothing leaves the condition true for ever
FillLoop(list, selected, limit) ==
  IF ~(Len(selected) < limit /\ Len(selected) < Len(list)) THEN selected
  ELSE IF FillPass(list, 1, selected, limit) = selected THEN selected
  ELSE FillLoop(list, FillPass(list, 1, selected, limit), limit)

\* mutant: no backfill after the greedy pass
addDiversityToSelection_greedyOnly(list, limit) ==
  IF Len(list) <= limit THEN list
  ELSE GreedyPass(list, 1, <<>>, limit)

addDiversityToSelection(list, limit) ==
  IF Len(list) <= limit THEN list
  ELSE FillLoop(list, GreedyPass(list, 1, <<>>, limit), limit)

calculateUserSimilarity(profile, other) ==
  (Max(0, ScoreUnit - (Abs(profile.currentStreak - users[other].currentStreak) * ScoreUnit) \div 30) * 3) \div 10
  + (Max(0, ScoreUnit - (Abs(profile.longestStreak - users[other].longestStreak) * ScoreUnit) \div 100) * 3) \div 10
  + (profile.interactionStats.engagementScore * 4) \div 10

\* findSimilarUsers: the ids of the peers kept ([] when a query fails); peers
\* tied at the fifth place are all kept
findSimilarUsers(u, profile, fails) ==
  IF "similar.findMany" \in fails THEN {}
  ELSE LET candidateUsers ==
             {v \in Users \ {u} :
                /\ userCategories[v] \cap profile.preferredCategories # {}
                /\ users[v].isActive
                /\ users[v].difficultyLevel = profile.difficultyLevel}
       IN {v \in candidateUsers :
             Cardinality({x \in candidateUsers :
                calculateUserSimilarity(profile, x) > calculateUserSimilarity(profile, v)})
               < SimilarUsersTake}

\* where of the recommendation query: liked by a similar user,
\* fact: { isApproved: true, isActive: true }
RecommendedWhere(similar, f) ==
  /\ \E v \in similar : userFacts[v][f].isLiked
  /\ facts[f].isApproved
  /\ facts[f].isActive

\* the latest updatedAt among the similar users' liked rows of fact f
LatestLike(similar, f) ==
  CHOOSE t \in {userFacts[v][f].updatedAt : v \in {x \in similar : userFacts[x][f].isLiked}} :
    \A v \in {x \in similar : userFacts[x][f].isLiked} : userFacts[v][f].updatedAt <= t

\* getRecommendedFacts: every list the call can return
getRecommendedFacts(u, profile, limit, fails) ==
  LET similar == findSimilarUsers(u, profile, fails)
  IN IF similar = {} THEN getFallbackFacts(limit, fails)
     ELSE IF "recommended.findMany" \in fails THEN getFallbackFacts(limit, fails)
     ELSE {Take(p, limit) :
             p \in Orderings({f \in AllFacts : RecommendedWhere(similar, f)},
                             LAMBDA a, b : LatestLike(similar, a) > LatestLike(similar, b))}

\* the try block of getPersonalizedFacts for a profile that is not null
PersonalizedLists(u, profile, limit, excludeViewed, includeRecommendations, fails, cache) ==
  LET factScores == calculatePersonalizationScores(u, profile, fails, cache)
  IN UNION {
       LET ranked == scoreAndRankFacts(c, factScores)
           diversifiedFacts == addDiversityToSelection(ranked, limit)
       IN IF includeRecommendations /\ Len(diversifiedFacts) < limit
          THEN {Take(diversifiedFacts \o r, limit) :
                  r \in getRecommendedFacts(u, profile, limit - Len(diversifiedFacts), fails)}
          ELSE {Take(diversifiedFacts, limit)}
       : c \in getFactCandidates(u, excludeViewed, profile.difficultyLevel,
                                 profile.preferredCategories, limit * 3)}

\* getPersonalizedFacts(userId, { limit, excludeViewed, includeRecommendations }):
\* every outcome of the call: the list returned, whether the call threw, and
\* whether getUserProfile gave null
getPersonalizedFacts(u, limit, excludeViewed, includeRecommendations, fails, cache) ==
  LET profile == getUserProfile(u, fails, cache)
  IN IF ~profile.exists \/ CandidatesThrow(excludeViewed, fails)
     THEN {[threw |-> FALSE, profileNull |-> ~profile.exists, list |-> l] :
             l \in getFallbackFacts(limit, fails)}
     ELSE {[threw |-> FALSE, profileNull |-> FALSE, list |-> l] :
             l \in PersonalizedLists(u, profile, limit, excludeViewed,
                                     includeRecommendations, fails, cache)}

\* the Redis store after the call: cacheSet of getUserProfile and of
\* calculatePersonalizationScores, each reached only after its cacheGet
\* found nothing and its queries succeeded
cacheAfterGetPersonalizedFacts(u, fails, cache) ==
  LET profile == getUserProfile(u, fails, cache)
      profiles == IF profile.exists /\ u \notin DOMAIN cache.profiles
                  THEN (u :> profile) @@ cache.profiles ELSE cache.profiles
      scores == IF /\ profile.exists
                   /\ u \notin DOMAIN cache.scores
                   /\ "scores.findMany" \notin fails
                   /\ ~cacheSetThrows
                THEN (u :> calculatePersonalizationScores(u, profile, fails, cache)) @@ cache.scores
                ELSE cache.scores
  IN [profiles |-> profiles, scores |-> scores]

(***************************************************************************)
(* Initial tables.                                                         *)
(***************************************************************************)
InitRows == 2

FactKinds == {"ok", "unapproved", "inactive", "scheduled"}

\* a row of facts: category and difficulty go by id, kind says which of the
\* three eligibility columns is off
FactRow(f, kind, featured, likes, views) ==
  [categoryId |-> IF f % 2 = 1 THEN "Science" ELSE "History",
   difficulty |-> IF f <= 2 THEN "MEDIUM" ELSE "HARD",
   isApproved |-> kind # "unapproved",
   isActive |-> kind # "inactive",
   publishedAt |-> IF kind = "scheduled" THEN MaxNow + 10 ELSE 0,
   isFeatured |-> featured,
   createdAt |-> f - (NumFacts + 1),
   tags |-> IF f % 2 = 1 THEN {"space"} ELSE {"war", "kings"},
   likeCount |-> likes,
   viewCount |-> views,
   shareCount |-> 0]

UserRow(maxPerDay, enabled) ==
  [isActive |-> TRUE, notificationsEnabled |-> enabled,
   maxNotificationsPerDay |-> maxPerDay, difficultyLevel |-> "MEDIUM",
   dailyNotificationTime |-> 9 * 60, utcOffset |-> 5 * 60, weekendNotifications |-> TRUE,
   currentStreak |-> 0, longestStreak |-> 0, lastActiveDate |-> NoTime]

NoInteraction ==
  [isViewed |-> FALSE, viewedAt |-> NoTime, isLiked |-> FALSE, isBookmarked |-> FALSE,
   isShared |-> FALSE, updatedAt |-> 0]

NotificationRow(i, u, status, created, retries, next) ==
  [id |-> i, userId |-> u, factId |-> NoFact, status |-> status,
   retryCount |-> retries, nextRetryAt |-> next,
   sentAt |-> IF status \in {"SENT", "DELIVERED"} THEN 0 ELSE NoTime,
   createdAt |-> created,
   errorMessage |-> IF status = "FAILED" THEN "send failed" ELSE ""]

NoCall ==
  [op |-> "none", user |-> "u1", limit |-> 0, excludeViewed |-> FALSE,
   failed |-> FALSE, threw |-> FALSE, profileNull |-> FALSE, result |-> <<>>]

\* notifications already in the table when the day's ticks start
DeliveredRows ==
  {<<"SENT", "today">>, <<"DELIVERED", "today">>, <<"SENT", "yesterday">>, <<"FAILED", "today">>}

Init ==
  /\ now = 0
  /\ \E m \in 1..MaxCap :
       users = [u \in Users |-> UserRow(IF u = "u1" THEN m ELSE MaxCap, TRUE)]
  /\ \E k \in FactKinds :
       facts = [f \in FactIds |-> FactRow(f, IF f = 1 THEN k ELSE "ok", FALSE, 0, 0)]
  /\ \E c \in {{}, {"Science"}} :
       userCategories = [u \in Users |-> IF u = "u1" THEN c ELSE {}]
  /\ \E seen \in {{}, {1}} :
       userFacts = [u \in Users |-> [f \in FactIds |->
                      IF u = "u1" /\ f \in seen
                      THEN [NoInteraction EXCEPT !.isViewed = TRUE, !.viewedAt = 0] ELSE NoInteraction]]
  /\ \E n \in 0..InitRows : \E rows \in [1..n -> DeliveredRows] :
       notifications = [i \in 1..n |-> NotificationRow(i, "u1", rows[i][1], rows[i][2], 0, NoTime)]
  /\ \A u \in Users : todayNotifications(u) <= users[u].maxNotificationsPerDay
  /\ dist = [w \in Workers |-> IdleWorker]
  /\ retry = [r \in Runners |-> IdleRunner]
  /\ call = NoCall
  /\ redis = EmptyCache
  /\ scheduler = NewScheduler
  /\ requests = NoRequests

Next ==
  \/ \E w \in Workers, u \in Users : StartSendDailyFactToUser(w, u)
  \/ \E w \in Workers : CountTodayNotifications(w)
  \/ \E w \in Workers : SelectFact(w)
  \/ \E w \in Workers : sendDailyFactNotification(w)
  \/ \E w \in Workers : ThrowInSendDailyFactToUser(w)
  \/ \E w \in Workers : FinishSendDailyFactToUser(w)

Spec == Init /\ [][Next]_vars


\* failed notifications already in the table: status, retryCount, nextRetryAt
RetryRows ==
  {<<"FAILED", c, t>> : c \in 0..MaxRetries, t \in {NoTime, 0}} \cup {<<"SENT", 0, NoTime>>}

InitRetry ==
  /\ now = 0
  /\ \E e \in BOOLEAN :
       users = [u \in Users |-> UserRow(MaxCap, IF u = "u1" THEN e ELSE TRUE)]
  /\ facts = [f \in FactIds |-> FactRow(f, "ok", FALSE, 0, 0)]
  /\ userCategories = [u \in Users |-> {}]
  /\ userFacts = [u \in Users |-> [f \in FactIds |-> NoInteraction]]
  /\ \E n \in 1..Cardinality(Users) : \E rows \in [1..n -> RetryRows] :
       notifications = [i \in 1..n |->
          NotificationRow(i, IF i % 2 = 1 THEN "u1" ELSE "u2", rows[i][1], "today",
                          rows[i][2], rows[i][3])]
  /\ dist = [w \in Workers |-> IdleWorker]
  /\ retry = [r \in Runners |-> IdleRunner]
  /\ call = NoCall
  /\ redis = EmptyCache
  /\ scheduler = NewScheduler
  /\ requests = NoRequests

NextRetry ==
  \/ \E r \in Runners : StartRetryFailedNotifications(r)
  \/ \E r \in Runners : RetryNotification(r)
  \/ \E r \in Runners : FinishRetryFailedNotifications(r)
  \/ AdvanceClock
  \/ \E u \in {"u1"}, e \in BOOLEAN : updateNotificationSettings(u, e)

SpecRetry == InitRetry /\ [][NextRetry]_vars


(***************************************************************************)
(* Calls of the personalization service and of the scheduler's fact        *)
(* selection, on a fact table with at most one ineligible fact, at most    *)
(* one featured fact, the first facts viewed by user u1 and at most one    *)
(* fact liked by the peer u2.                                             *)
(***************************************************************************)
Callers == {"u1", "nobody"}

\* the repository calls that may reject during one call
FailSets ==
  {{}} \cup {{c} : c \in {"user.findUnique", "stats.count", "scores.findMany",
                           "candidates.findMany", "similar.findMany",
                           "recommended.findMany", "fallback.findMany"}}

\* the repository calls of the personalized path (all but the fallback query)
PersonalizedPathFails(fails) == fails \ {"fallback.findMany"} # {}

InitP ==
  /\ now = 0
  /\ users = [u \in Users |-> UserRow(MaxCap, TRUE)]
  /\ \E bad \in FactIds \cup {0}, k \in FactKinds \ {"ok"}, ft \in FactIds \cup {0},
        seen \in {1..n : n \in 0..NumFacts}, liked \in {{}} \cup {{f} : f \in FactIds} :
       /\ (bad = 0 => k = "unapproved")
       /\ facts = [f \in FactIds |->
                     FactRow(f, IF f = bad THEN k ELSE "ok", f = ft,
                             IF f \in liked THEN 1 ELSE 0, IF f \in seen THEN 1 ELSE 0)]
       /\ userFacts = [u \in Users |-> [f \in FactIds |->
                         IF u = "u1" /\ f \in seen
                         THEN [NoInteraction EXCEPT !.isViewed = TRUE, !.viewedAt = 0]
                         ELSE IF u = "u2" /\ f \in liked
                         THEN [NoInteraction EXCEPT !.isLiked = TRUE]
                         ELSE NoInteraction]]
  /\ \E c \in {{}, {"Science"}} :
       userCategories = [u \in Users |-> IF u = "u1" THEN c ELSE {"Science"}]
  /\ notifications = <<>>
  /\ dist = [w \in Workers |-> IdleWorker]
  /\ retry = [r \in Runners |-> IdleRunner]
  /\ call = NoCall
  /\ redis = EmptyCache
  /\ scheduler = NewScheduler
  /\ requests = NoRequests

\* a request for daily facts: personalizationService.getPersonalizedFacts
CallGetPersonalizedFacts(u, limit, excludeViewed, includeRecommendations, fails) ==
  /\ call.op = "none"
  /\ \E r \in getPersonalizedFacts(u, limit, excludeViewed, includeRecommendations, fails, redis) :
       call' = [op |-> "getPersonalizedFacts", user |-> u, limit |-> limit,
                excludeViewed |-> excludeViewed, failed |-> PersonalizedPathFails(fails),
                threw |-> r.threw, profileNull |-> r.profileNull, result |-> r.list]
  /\ redis' = cacheAfterGetPersonalizedFacts(u, fails, redis)
  /\ UNCHANGED <<requests, scheduler, now, users, facts, userCategories, userFacts, notifications, dist, retry>>

\* the scheduler's getPersonalizedFact(user)
CallGetPersonalizedFact(u, queryFails) ==
  /\ call.op = "none"
  /\ \E f \in getPersonalizedFact(u, queryFails) :
       call' = [op |-> "getPersonalizedFact", user |-> u, limit |-> 1,
                excludeViewed |-> TRUE, failed |-> queryFails, threw |-> FALSE,
                profileNull |-> FALSE, result |-> IF f = NoFact THEN <<>> ELSE <<f>>]
  /\ UNCHANGED <<requests, scheduler, redis, now, users, facts, userCategories, userFacts, notifications, dist, retry>>

\* the caller has taken the result
ReturnToCaller ==
  /\ call.op # "none"
  /\ call' = NoCall
  /\ UNCHANGED <<requests, scheduler, redis, now, users, facts, userCategories, userFacts, notifications, dist, retry>>

NextP ==
  \/ \E u \in Callers, limit \in 1..MaxLimit, excludeViewed \in BOOLEAN,
        includeRecommendations \in BOOLEAN, fails \in FailSets :
       CallGetPersonalizedFacts(u, limit, excludeViewed, includeRecommendations, fails)
  \/ \E u \in Users, queryFails \in BOOLEAN : CallGetPersonalizedFact(u, queryFails)
  \/ ReturnToCaller

SpecP == InitP /\ [][NextP]_vars


(***************************************************************************)
(* Calls of calculateFactScore on facts of any age and popularity and on   *)
(* profiles of any engagement, tags and personality.                       *)
(***************************************************************************)
\* ages of a fact in days: created in the future, now, and long ago
MaxAgeDays == 800
AgeDays == {-MaxAgeDays, 0, MaxAgeDays \div 2, MaxAgeDays * 10}

\* values of a view, like or share counter
MaxCounter == 200
Counters == {0, MaxCounter}

\* profiles handed to calculateFactScore
ScoreProfiles ==
  {[NoProfile EXCEPT !.exists = TRUE, !.difficultyLevel = d,
      !.preferredCategories = cats,
      !.categoryPreferences = [c \in cats |-> e],
      !.learningPatterns = [NeutralPatterns EXCEPT !.preferredTags = tags],
      !.personalityScore = p] :
     d \in {"MEDIUM", "EXPERT"}, cats \in {{}, {"Science"}},
     e \in {0, ScoreUnit \div 2, ScoreUnit}, tags \in {{}, {"space"}, {"war", "moon"}},
     p \in {0, ScoreUnit}}

InitScore ==
  /\ now = 0
  /\ users = [u \in Users |-> UserRow(MaxCap, TRUE)]
  /\ \E d \in AgeDays, n \in Counters :
       facts = [f \in FactIds |->
                  [FactRow(f, "ok", FALSE, n, n) EXCEPT
                     !.createdAt = now - (d * MinutesPerDay) - f, !.shareCount = n]]
  /\ userCategories = [u \in Users |-> {}]
  /\ userFacts = [u \in Users |-> [f \in FactIds |-> NoInteraction]]
  /\ notifications = <<>>
  /\ dist = [w \in Workers |-> IdleWorker]
  /\ retry = [r \in Runners |-> IdleRunner]
  /\ call = NoCall
  /\ redis = EmptyCache
  /\ scheduler = NewScheduler
  /\ requests = NoRequests

\* calculateFactScore(fact, userProfile)
CallCalculateFactScore(f, profile) ==
  /\ call.op = "none"
  /\ call' = [op |-> "calculateFactScore", fact |-> f, profile |-> profile,
              score |-> calculateFactScore(f, profile)]
  /\ UNCHANGED <<requests, scheduler, redis, now, users, facts, userCategories, userFacts, notifications, dist, retry>>

NextScore ==
  \/ \E f \in FactIds, profile \in ScoreProfiles : CallCalculateFactScore(f, profile)
  \/ ReturnToCaller

SpecScore == InitScore /\ [][NextScore]_vars


(***************************************************************************)
(* Calls of addDiversityToSelection on ranked lists of facts of any        *)
(* categories, the difficulties following one of three patterns.           *)
(***************************************************************************)
DivFacts == 7
MinDivLimit == 6
MaxDivLimit == 7
DivCategories == {"Science", "History", "Art"}

\* the difficulty of the k-th fact: all different in turn, in pairs, all one
DifficultyPatterns ==
  {[k \in 1..DivFacts |-> difficultyOrder[(k % 4) + 1]],
   [k \in 1..DivFacts |-> difficultyOrder[((k \div 2) % 4) + 1]],
   [k \in 1..DivFacts |-> "MEDIUM"]}

InitDiversity ==
  /\ now = 0
  /\ users = [u \in Users |-> UserRow(MaxCap, TRUE)]
  /\ \E cat \in [1..DivFacts -> DivCategories], dif \in DifficultyPatterns :
       facts = [f \in 1..DivFacts |->
                  [FactRow(f, "ok", FALSE, 0, 0) EXCEPT
                     !.categoryId = cat[f], !.difficulty = dif[f]]]
  /\ userCategories = [u \in Users |-> {}]
  /\ userFacts = [u \in Users |-> [f \in FactIds |-> NoInteraction]]
  /\ notifications = <<>>
  /\ dist = [w \in Workers |-> IdleWorker]
  /\ retry = [r \in Runners |-> IdleRunner]
  /\ call = NoCall
  /\ redis = EmptyCache
  /\ scheduler = NewScheduler
  /\ requests = NoRequests

\* addDiversityToSelection(facts, limit) on the n best ranked facts
CallAddDiversityToSelection(n, limit) ==
  /\ call.op = "none"
  /\ LET list == [k \in 1..n |-> k]
     IN call' = [op |-> "addDiversityToSelection", list |-> list, limit |-> limit,
                 result |-> addDiversityToSelection(list, limit)]
  /\ UNCHANGED <<requests, scheduler, redis, now, users, facts, userCategories, userFacts, notifications, dist, retry>>

NextDiversity ==
  \/ \E n \in 1..DivFacts, limit \in MinDivLimit..MaxDivLimit : CallAddDiversityToSelection(n, limit)
  \/ ReturnToCaller

SpecDiversity == InitDiversity /\ [][NextDiversity]_vars

\* the same calls with every limit from 1 on
NextSelection ==
  \/ \E n \in 1..DivFacts, limit \in 1..MaxDivLimit : CallAddDiversityToSelection(n, limit)
  \/ ReturnToCaller

SpecSelection == InitDiversity /\ [][NextSelection]_vars


(***************************************************************************)
(* A request for six daily facts by a MEDIUM user with the categories      *)
(* Science and History, on a table of five eligible MEDIUM facts of each   *)
(* of the two and five eligible facts of other categories.                 *)
(***************************************************************************)
ScenarioFacts == 1..15

\* like counts that rank the fifteen facts in a different order for each k
ScenarioOrders == 1..16
ScenarioLikes(f, k) == (f * k) % 17

InitScenario ==
  /\ now = 0
  /\ users = [u \in Users |-> UserRow(MaxCap, TRUE)]
  /\ \E k \in ScenarioOrders, d \in {"MEDIUM", "HARD"}, ft \in {0, 1, 6, 11} :
       facts = [f \in ScenarioFacts |->
                  [FactRow(f, "ok", f = ft, ScenarioLikes(f, k), 0) EXCEPT
                     !.categoryId = IF f <= 5 THEN "Science"
                                    ELSE IF f <= 10 THEN "History"
                                    ELSE IF f <= 13 THEN "Art" ELSE "Sport",
                     !.difficulty = IF f <= 10 THEN "MEDIUM" ELSE d]]
  /\ userCategories = [u \in Users |-> IF u = "u1" THEN {"Science", "History"} ELSE {}]
  /\ userFacts = [u \in Users |-> [f \in ScenarioFacts |-> NoInteraction]]
  /\ notifications = <<>>
  /\ dist = [w \in Workers |-> IdleWorker]
  /\ retry = [r \in Runners |-> IdleRunner]
  /\ call = NoCall
  /\ redis = EmptyCache
  /\ scheduler = NewScheduler
  /\ requests = NoRequests

NextScenario ==
  \/ \E excludeViewed \in BOOLEAN, includeRecommendations \in BOOLEAN :
       CallGetPersonalizedFacts("u1", 6, excludeViewed, includeRecommendations, {})
  \/ ReturnToCaller

SpecScenario == InitScenario /\ [][NextScenario]_vars


(***************************************************************************)
(* Requests for daily facts with a Redis store that is empty or holds a    *)
(* profile and scores written before the user's categories changed or a    *)
(* fact was published; entries expire, the user changes the categories.    *)
(* Requests and changes are looked at one at a time.                       *)
(***************************************************************************)
CategorySets == {{}, {"Science"}, {"History"}}

\* a profile as getUserProfile builds it for a user without interactions
ProfileOf(cats) ==
  [NoProfile EXCEPT !.exists = TRUE, !.difficultyLevel = "MEDIUM",
     !.preferredCategories = cats, !.categoryPreferences = [c \in cats |-> 0],
     !.personalityScore = ScoreUnit \div 2]

\* what earlier calls may have left under user_profile:u1 and fact_scores:u1
CachedStores ==
  {EmptyCache}
  \cup {[profiles |-> ("u1" :> ProfileOf(cats)), scores |-> <<>>] : cats \in CategorySets}
  \cup {[profiles |-> ("u1" :> ProfileOf(cats)),
         scores |-> ("u1" :> [f \in 1..(NumFacts - 1) |-> ScoreUnit \div f])] :
          cats \in CategorySets}

InitCache ==
  /\ now = 0
  /\ users = [u \in Users |-> UserRow(MaxCap, TRUE)]
  /\ \E k \in {"ok", "unapproved"} :
       facts = [f \in FactIds |-> FactRow(f, IF f = NumFacts THEN k ELSE "ok", FALSE, f, 0)]
  /\ \E cats \in CategorySets :
       userCategories = [u \in Users |-> IF u = "u1" THEN cats ELSE {}]
  /\ userFacts = [u \in Users |-> [f \in FactIds |-> NoInteraction]]
  /\ notifications = <<>>
  /\ dist = [w \in Workers |-> IdleWorker]
  /\ retry = [r \in Runners |-> IdleRunner]
  /\ call = NoCall
  /\ redis \in CachedStores
  /\ scheduler = NewScheduler
  /\ requests = NoRequests

\* updateTopicPreferences with a body that sets categories: the rows of
\* user_categories are replaced; the keys it deletes from Redis are
\* user:<id> and preferences:<id>, neither of them a key of redis
updateTopicPreferences(u, categories) ==
  /\ call.op = "none"
  /\ userCategories[u] # categories
  /\ userCategories' = [userCategories EXCEPT ![u] = categories]
  /\ UNCHANGED <<requests, scheduler, redis, now, users, facts, userFacts, notifications, dist, retry, call>>

\* the TTL of a key runs out
ExpireCache(u) ==
  /\ call.op = "none"
  /\ u \in DOMAIN redis.profiles \cup DOMAIN redis.scores
  /\ \/ /\ u \in DOMAIN redis.profiles
        /\ redis' = [redis EXCEPT !.profiles = [v \in DOMAIN redis.profiles \ {u} |-> redis.profiles[v]]]
     \/ /\ u \in DOMAIN redis.scores
        /\ redis' = [redis EXCEPT !.scores = [v \in DOMAIN redis.scores \ {u} |-> redis.scores[v]]]
  /\ UNCHANGED <<requests, scheduler, now, users, facts, userCategories, userFacts, notifications, dist, retry, call>>

\* getUserProfile(userId) called by itself; a profile built from the tables
\* is written to Redis by the cacheSet at its end
CallGetUserProfile(u, fails) ==
  /\ call.op = "none"
  /\ LET profile == getUserProfile(u, fails, redis)
     IN /\ call' = [op |-> "getUserProfile", user |-> u, failed |-> fails # {},
                    cached |-> u \in DOMAIN redis.profiles, threw |-> FALSE,
                    profile |-> profile]
        /\ redis' = IF profile.exists /\ u \notin DOMAIN redis.profiles
                    THEN [redis EXCEPT !.profiles = (u :> profile) @@ redis.profiles]
                    ELSE redis
  /\ UNCHANGED <<requests, scheduler, now, users, facts, userCategories, userFacts, notifications, dist, retry>>

NextCache ==
  \/ \E u \in Callers, limit \in 1..MaxLimit :
       CallGetPersonalizedFacts(u, limit, TRUE, TRUE, {})
  \/ \E u \in Callers, fails \in {{}, {"user.findUnique"}, {"userCategory.findMany"}} :
       CallGetUserProfile(u, fails)
  \/ ReturnToCaller
  \/ \E categories \in CategorySets : updateTopicPreferences("u1", categories)
  \/ \E u \in Users : ExpireCache(u)

SpecCache == InitCache /\ [][NextCache]_vars


(***************************************************************************)
(* The user filter of distributeDailyFacts at every UTC hour, for users    *)
(* of several notification times and timezones.                            *)
(***************************************************************************)
\* times of day (09:00, 09:30, 00:30, 23:00) and offsets from UTC (+5, +5:30,
\* -8, 0, +14 hours), in minutes
NotificationTimes == {9 * 60, 9 * 60 + 30, 30, 23 * 60}
UtcOffsets == {5 * 60, 5 * 60 + 30, -8 * 60, 0, 14 * 60}

InitTick ==
  /\ now = 0
  /\ \E t \in NotificationTimes, o \in UtcOffsets, e \in BOOLEAN, a \in BOOLEAN, we \in BOOLEAN :
       users = [u \in Users |->
                  IF u = "u1"
                  THEN [UserRow(MaxCap, e) EXCEPT !.dailyNotificationTime = t, !.utcOffset = o,
                                                 !.isActive = a, !.weekendNotifications = we]
                  ELSE UserRow(MaxCap, TRUE)]
  /\ facts = [f \in FactIds |-> FactRow(f, "ok", FALSE, 0, 0)]
  /\ userCategories = [u \in Users |-> {}]
  /\ userFacts = [u \in Users |-> [f \in FactIds |-> NoInteraction]]
  /\ notifications = <<>>
  /\ dist = [w \in Workers |-> IdleWorker]
  /\ retry = [r \in Runners |-> IdleRunner]
  /\ call = NoCall
  /\ redis = EmptyCache
  /\ scheduler = NewScheduler
  /\ requests = NoRequests

\* the first part of distributeDailyFacts at UTC hour currentHour: the query
\* and the filter that give usersToNotify
FilterUsersToNotify(currentHour, isWeekend) ==
  /\ call.op = "none"
  /\ call' = [op |-> "distributeDailyFacts", currentHour |-> currentHour,
              isWeekend |-> isWeekend,
              usersToNotify |-> usersToNotify(currentHour, isWeekend)]
  /\ UNCHANGED <<requests, scheduler, redis, now, users, facts, userCategories, userFacts, notifications, dist, retry>>

NextTick ==
  \/ \E currentHour \in Hours, isWeekend \in BOOLEAN : FilterUsersToNotify(currentHour, isWeekend)
  \/ ReturnToCaller

SpecTick == InitTick /\ [][NextTick]_vars


(***************************************************************************)
(* SpecBatch: one tick of distributeDailyFacts with its batches.  call is  *)
(* the tick (the list it filtered, the start of the current batch and how  *)
(* far the tick is) and dist[k] is the call of sendDailyFactToUser for the *)
(* k-th user of the list.                                                  *)
(***************************************************************************)
\* const batchSize = 50, reduced
batchSize == 2

\* the users of the table, in the order findMany returns them
BatchUsers == <<"u1", "u2", "u3", "u4", "u5">>

InitBatch ==
  /\ now = 0
  /\ \E enabled \in SUBSET Range(BatchUsers) :
       users = [u \in Range(BatchUsers) |->
                  UserRow(IF u = "u2" THEN 1 ELSE MaxCap, u \in enabled)]
  /\ facts = [f \in FactIds |-> FactRow(f, "ok", FALSE, 0, 0)]
  /\ userCategories = [u \in Range(BatchUsers) |-> {}]
  /\ userFacts = [u \in Range(BatchUsers) |-> [f \in FactIds |-> NoInteraction]]
  /\ \E n \in 0..1 :
       notifications = [i \in 1..n |-> NotificationRow(i, "u2", "SENT", "today", 0, NoTime)]
  /\ dist = <<>>
  /\ retry = [r \in Runners |-> IdleRunner]
  /\ call = NoCall
  /\ redis = EmptyCache
  /\ scheduler = NewScheduler
  /\ requests = NoRequests

\* the k-th to the last user of a batch that starts at position i
Batch(i, list) == {k \in 1..Len(list) : i <= k /\ k < i + batchSize}

\* batch.map(user => this.sendDailyFactToUser(user)): every call of the batch
\* runs up to its first await, the count query
StartedBatch(i, list, calls) ==
  [k \in 1..Len(list) |->
     IF k \in Batch(i, list)
     THEN [IdleWorker EXCEPT !.pc = "count", !.user = list[k],
             !.maxNotificationsPerDay = users[list[k]].maxNotificationsPerDay]
     ELSE calls[k]]

\* distributeDailyFacts up to the first Promise.all: the findMany, which may
\* throw, the filter and the start of the first batch
StartDistributeDailyFacts(currentHour, isWeekend, findManyThrows) ==
  /\ call.op = "none"
  /\ LET selected(u) == u \in usersToNotify(currentHour, isWeekend)
         list == IF findManyThrows THEN <<>> ELSE SelectSeq(BatchUsers, selected)
     IN /\ call' = [op |-> "distributeDailyFacts", usersToNotify |-> list, i |-> 1,
                    status |-> IF findManyThrows THEN "threw"
                               ELSE IF list = <<>> THEN "completed" ELSE "batch"]
        /\ dist' = StartedBatch(1, list, [k \in 1..Len(list) |-> [IdleWorker EXCEPT !.user = list[k]]])
  /\ UNCHANGED <<requests, scheduler, redis, now, users, facts, userCategories, userFacts, notifications, retry>>

\* await Promise.all(...) settles: it rejects as soon as one call of the batch
\* rejects, and then the catch of distributeDailyFacts logs and throws; it is
\* fulfilled when every call of the batch is, and then the loop goes on to the
\* delay and the next batch, or ends
AwaitBatch ==
  /\ call.op = "distributeDailyFacts" /\ call.status = "batch"
  /\ LET batch == Batch(call.i, call.usersToNotify)
         next == call.i + batchSize
     IN IF \E k \in batch : dist[k].pc = "done" /\ dist[k].outcome = "rejected"
        THEN /\ call' = [call EXCEPT !.status = "threw"]
             /\ UNCHANGED dist
        ELSE /\ \A k \in batch : dist[k].pc = "done"
             /\ IF next > Len(call.usersToNotify)
                THEN /\ call' = [call EXCEPT !.status = "completed"]
                     /\ UNCHANGED dist
                ELSE /\ call' = [call EXCEPT !.i = next]
                     /\ dist' = StartedBatch(next, call.usersToNotify, dist)
  /\ UNCHANGED <<requests, scheduler, redis, now, users, facts, userCategories, userFacts, notifications, retry>>

NextBatch ==
  \/ \E currentHour \in {4, 5}, isWeekend, findManyThrows \in BOOLEAN :
       StartDistributeDailyFacts(currentHour, isWeekend, findManyThrows)
  \/ \E k \in DOMAIN dist : CountTodayNotifications(k)
  \/ \E k \in DOMAIN dist : SelectFact(k)
  \/ \E k \in DOMAIN dist : sendDailyFactNotification(k)
  \/ \E k \in DOMAIN dist : ThrowInSendDailyFactToUser(k)
  \/ AwaitBatch

SpecBatch == InitBatch /\ [][NextBatch]_vars


(***************************************************************************)
(* SpecJobs: the scheduler and its six jobs.  A tick of a job calls the     *)
(* wrapper that scheduleJob gave to cron.schedule; the wrapper awaits the  *)
(* handler inside a try.                                                   *)
(***************************************************************************)
\* the order in which start() schedules the jobs
JobOrder ==
  <<"daily-facts-distribution", "retry-failed-notifications", "cleanup-expired-sessions",
    "cleanup-old-notifications", "update-user-streaks", "generate-analytics">>

\* scheduleJob(name, cronExpression, handler): a name already in the map is
\* skipped, otherwise the task is created, started and put into the map
scheduleJob(jobs, name) ==
  IF name \in DOMAIN jobs THEN jobs
  ELSE [n \in DOMAIN jobs \cup {name} |-> IF n = name THEN "scheduled" ELSE jobs[n]]

RECURSIVE ScheduleJobs(_, _)
ScheduleJobs(jobs, names) ==
  IF names = <<>> THEN jobs
  ELSE ScheduleJobs(scheduleJob(jobs, Head(names)), Tail(names))

\* only distributeDailyFacts throws out of its own catch; the other five
\* handlers log their errors and return
HandlerMayThrow(name) == name = "daily-facts-distribution"

InitJobs ==
  /\ now = 0
  /\ users = [u \in Users |-> UserRow(MaxCap, TRUE)]
  /\ facts = [f \in FactIds |-> FactRow(f, "ok", FALSE, 0, 0)]
  /\ userCategories = [u \in Users |-> {}]
  /\ userFacts = [u \in Users |-> [f \in FactIds |-> NoInteraction]]
  /\ notifications = <<>>
  /\ dist = [w \in Workers |-> IdleWorker]
  /\ retry = [r \in Runners |-> IdleRunner]
  /\ call = NoCall
  /\ redis = EmptyCache
  /\ scheduler = NewScheduler
  /\ requests = NoRequests

\* what a call of a method of the scheduler does: the scheduler after it, the
\* names it called cron.schedule for and the names whose task it destroyed
NoEffect(s) == [scheduler |-> s, scheduled |-> {}, destroyed |-> {}]

\* start(): returns with a warning when the scheduler is running
startCall(s) ==
  IF s.isRunning THEN NoEffect(s)
  ELSE [scheduler |-> [s EXCEPT !.isRunning = TRUE, !.jobs = ScheduleJobs(s.jobs, JobOrder)],
        scheduled |-> Range(JobOrder) \ DOMAIN s.jobs,
        destroyed |-> {}]

\* mutant: stop() without the isRunning test
stopCall_unguarded(s) ==
  [scheduler |-> [s EXCEPT !.isRunning = FALSE, !.jobs = <<>>],
   scheduled |-> {}, destroyed |-> DOMAIN s.jobs]

\* stop(): returns with a warning when the scheduler is not running; otherwise
\* every task is destroyed and the map is cleared
stopCall(s) ==
  IF ~s.isRunning THEN NoEffect(s)
  ELSE [scheduler |-> [s EXCEPT !.isRunning = FALSE, !.jobs = <<>>],
        scheduled |-> {}, destroyed |-> DOMAIN s.jobs]

\* scheduleJob(name, ...) called from outside start()
scheduleJobCall(s, name) ==
  IF name \in DOMAIN s.jobs THEN NoEffect(s)
  ELSE [scheduler |-> [s EXCEPT !.jobs = scheduleJob(s.jobs, name)],
        scheduled |-> {name}, destroyed |-> {}]

\* start()
start ==
  /\ ~scheduler.isRunning
  /\ scheduler' = startCall(scheduler).scheduler
  /\ UNCHANGED <<requests, now, users, facts, userCategories, userFacts, notifications, dist, retry, call, redis>>

\* stop(): every task is destroyed and the map is cleared; a handler that is
\* running goes on
stop ==
  /\ scheduler.isRunning
  /\ scheduler' = stopCall(scheduler).scheduler
  /\ UNCHANGED <<requests, now, users, facts, userCategories, userFacts, notifications, dist, retry, call, redis>>

\* the cron expression of a scheduled task matches: the wrapper starts and
\* awaits handler().  One run of a job at a time.
Tick(name) ==
  /\ name \in DOMAIN scheduler.jobs
  /\ scheduler.jobs[name] = "scheduled"
  /\ scheduler.runs[name].pc = "idle"
  /\ scheduler' = [scheduler EXCEPT !.runs[name].pc = "running"]
  /\ UNCHANGED <<requests, now, users, facts, userCategories, userFacts, notifications, dist, retry, call, redis>>

\* await handler() returns and the wrapper logs the duration
HandlerReturns(name) ==
  /\ scheduler.runs[name].pc = "running"
  /\ scheduler' = [scheduler EXCEPT !.runs[name] = [pc |-> "idle", outcome |-> "completed"]]
  /\ UNCHANGED <<requests, now, users, facts, userCategories, userFacts, notifications, dist, retry, call, redis>>

\* mutant: the wrapper has no catch; the rejection is unhandled and the process,
\* with every task, ends
AfterHandlerThrows_uncaught(name) ==
  [isRunning |-> FALSE, jobs |-> <<>>,
   runs |-> [n \in JobNames |-> IF n = name THEN [pc |-> "idle", outcome |-> "caught"] ELSE NoRun]]

\* catch (error) { logger.error(...) } of the wrapper: the run ends, nothing
\* else changes
AfterHandlerThrows(name) ==
  [scheduler EXCEPT !.runs[name] = [pc |-> "idle", outcome |-> "caught"]]

\* await handler() throws
HandlerThrows(name) ==
  /\ scheduler.runs[name].pc = "running"
  /\ HandlerMayThrow(name)
  /\ scheduler' = AfterHandlerThrows(name)
  /\ UNCHANGED <<requests, now, users, facts, userCategories, userFacts, notifications, dist, retry, call, redis>>

NextJobs ==
  \/ start
  \/ stop
  \/ \E name \in JobNames : Tick(name)
  \/ \E name \in JobNames : HandlerReturns(name)
  \/ \E name \in JobNames : HandlerThrows(name)

SpecJobs == InitJobs /\ [][NextJobs]_vars

\* the timer of a scheduled task keeps firing
SpecJobsFair == SpecJobs /\ \A name \in JobNames : WF_vars(Tick(name))

(***************************************************************************)
(* SpecConsistency: calls of calculateConsistencyScore on the views of the *)
(* last seven days, as getUserLearningPatterns makes them.                 *)
(***************************************************************************)
ConsistencyFacts == 1..4

\* when a fact was viewed, in minutes: never, or at one of three times of the
\* last seven days
ViewTimes == {NoTime, 0, 60, 180}

InitConsistency ==
  /\ now = 240
  /\ users = [u \in Users |-> UserRow(MaxCap, TRUE)]
  /\ facts = [f \in ConsistencyFacts |-> FactRow(f, "ok", FALSE, 0, 0)]
  /\ userCategories = [u \in Users |-> {}]
  /\ \E viewedAt \in [ConsistencyFacts -> ViewTimes] :
       userFacts = [u \in Users |-> [f \in ConsistencyFacts |->
                      IF u = "u1" /\ viewedAt[f] # NoTime
                      THEN [NoInteraction EXCEPT !.isViewed = TRUE, !.viewedAt = viewedAt[f]]
                      ELSE NoInteraction]]
  /\ notifications = <<>>
  /\ dist = [w \in Workers |-> IdleWorker]
  /\ retry = [r \in Runners |-> IdleRunner]
  /\ call = NoCall
  /\ redis = EmptyCache
  /\ scheduler = NewScheduler
  /\ requests = NoRequests

\* consistencyScore: this.calculateConsistencyScore(recentViews)
CallCalculateConsistencyScore(u) ==
  /\ call.op = "none"
  /\ call' = [op |-> "calculateConsistencyScore", user |-> u,
              recentViews |-> recentViews(u),
              viewDates |-> {userFacts[u][f].viewedAt : f \in recentViews(u)},
              score |-> calculateConsistencyScore(u, recentViews(u))]
  /\ UNCHANGED <<requests, now, users, facts, userCategories, userFacts, notifications, dist, retry, redis, scheduler>>

NextConsistency == \E u \in Users : CallCalculateConsistencyScore(u)

SpecConsistency == InitConsistency /\ [][NextConsistency]_vars

(***************************************************************************)
(* SpecLike: factController.toggleLike, one await at a time, for requests  *)
(* that may overlap.  In this specification userFacts is the table as a    *)
(* sequence of rows, so that a second row for a (user, fact) pair can be   *)
(* told from the first; call.overlapped says whether two requests of one   *)
(* user for one fact have been handled at the same time.                   *)
(***************************************************************************)
RequestSlots == {"q1", "q2"}
LikeFacts == {1, 2}

IdleRequest ==
  [pc |-> "idle", user |-> "u1", fact |-> NoFact, isCurrentlyLiked |-> FALSE,
   newLikedState |-> FALSE, status |-> 0]

\* the rows of user_facts for a pair
UserFactRows(table, u, f) ==
  {i \in 1..Len(table) : table[i].userId = u /\ table[i].factId = f}

\* the state of a (user, fact) pair at the start: no row, a row that is not
\* liked, a liked row
PairStates == {"none", "row", "liked"}

PairOrder == <<<<"u1", 1>>, <<"u2", 1>>, <<"u1", 2>>>>

RECURSIVE RowsOf(_, _)
RowsOf(state, k) ==
  IF k > Len(PairOrder) THEN <<>>
  ELSE (IF state[k] = "none" THEN <<>>
        ELSE <<[userId |-> PairOrder[k][1], factId |-> PairOrder[k][2],
                isLiked |-> state[k] = "liked"]>>) \o RowsOf(state, k + 1)

\* the users that like a fact
Likers(table, f) == {u \in Users : \E i \in UserFactRows(table, u, f) : table[i].isLiked}

InitLike ==
  /\ now = 0
  /\ \E state \in [1..Len(PairOrder) -> PairStates] :
       /\ userFacts = RowsOf(state, 1)
       /\ \E kind \in {"ok", "inactive"} :
            facts = [f \in LikeFacts |->
                       FactRow(f, IF f = 2 THEN kind ELSE "ok", FALSE,
                               Cardinality(Likers(RowsOf(state, 1), f)), 0)]
       /\ users = [u \in Users |->
                     [totalFactsLiked |->
                        Cardinality({f \in LikeFacts : u \in Likers(RowsOf(state, 1), f)})]]
  /\ userCategories = [u \in Users |-> {}]
  /\ notifications = <<>>
  /\ dist = [w \in Workers |-> IdleWorker]
  /\ retry = [r \in Runners |-> IdleRunner]
  /\ call = [op |-> "toggleLike", overlapped |-> FALSE]
  /\ redis = EmptyCache
  /\ scheduler = NewScheduler
  /\ requests = [q \in RequestSlots |-> IdleRequest]

\* prisma.fact.findUnique({ id, isApproved: true, isActive: true }) and the
\* 404 when there is no such fact.  Once two toggles of a pair have overlapped
\* the counters drift without bound: no further request is followed then.
StartToggleLike(q, u, f) ==
  /\ requests[q].pc = "idle"
  /\ ~call.overlapped
  /\ requests' = [requests EXCEPT ![q] =
       IF facts[f].isApproved /\ facts[f].isActive
       THEN [IdleRequest EXCEPT !.pc = "findUserFact", !.user = u, !.fact = f]
       ELSE [IdleRequest EXCEPT !.pc = "done", !.user = u, !.fact = f, !.status = 404]]
  /\ call' = [call EXCEPT !.overlapped =
       @ \/ (facts[f].isApproved /\ facts[f].isActive
             /\ \E o \in RequestSlots \ {q} :
                  /\ requests[o].pc \in {"findUserFact", "upsert", "fact.update"}
                  /\ requests[o].user = u /\ requests[o].fact = f)]
  /\ UNCHANGED <<now, users, facts, userCategories, userFacts, notifications, dist, retry, redis, scheduler>>

\* prisma.userFact.findUnique; isCurrentlyLiked = userFact?.isLiked || false;
\* newLikedState = !isCurrentlyLiked
FindUserFact(q) ==
  /\ requests[q].pc = "findUserFact"
  /\ LET isCurrentlyLiked == requests[q].user \in Likers(userFacts, requests[q].fact)
     IN requests' = [requests EXCEPT ![q] = [@ EXCEPT !.pc = "upsert",
                       !.isCurrentlyLiked = isCurrentlyLiked,
                       !.newLikedState = ~isCurrentlyLiked]]
  /\ UNCHANGED <<now, users, facts, userCategories, userFacts, notifications, dist, retry, call, redis, scheduler>>

\* mutant: a create in place of the upsert
upsertUserFact_create(table, u, f, isLiked) ==
  Append(table, [userId |-> u, factId |-> f, isLiked |-> isLiked])

\* prisma.userFact.upsert on userId_factId: update the row of the pair, or
\* create it
upsertUserFact(table, u, f, isLiked) ==
  IF UserFactRows(table, u, f) # {}
  THEN [i \in 1..Len(table) |->
          IF i \in UserFactRows(table, u, f) THEN [table[i] EXCEPT !.isLiked = isLiked]
          ELSE table[i]]
  ELSE Append(table, [userId |-> u, factId |-> f, isLiked |-> isLiked])

UpsertUserFact(q) ==
  /\ requests[q].pc = "upsert"
  /\ userFacts' = upsertUserFact(userFacts, requests[q].user, requests[q].fact,
                                 requests[q].newLikedState)
  /\ requests' = [requests EXCEPT ![q].pc = "fact.update"]
  /\ UNCHANGED <<now, users, facts, userCategories, notifications, dist, retry, call, redis, scheduler>>

\* increment: newLikedState ? 1 : -1
LikeIncrement(newLikedState) == IF newLikedState THEN 1 ELSE -1

\* prisma.fact.update: likeCount
UpdateLikeCount(q) ==
  /\ requests[q].pc = "fact.update"
  /\ facts' = [facts EXCEPT ![requests[q].fact].likeCount =
                 @ + LikeIncrement(requests[q].newLikedState)]
  /\ requests' = [requests EXCEPT ![q].pc = "user.update"]
  /\ UNCHANGED <<now, users, userCategories, userFacts, notifications, dist, retry, call, redis, scheduler>>

\* prisma.user.update: totalFactsLiked; then the two cache.del, the log and
\* the response
FinishToggleLike(q) ==
  /\ requests[q].pc = "user.update"
  /\ users' = [users EXCEPT ![requests[q].user].totalFactsLiked =
                 @ + LikeIncrement(requests[q].newLikedState)]
  /\ requests' = [requests EXCEPT ![q] = [@ EXCEPT !.pc = "done", !.status = 200]]
  /\ UNCHANGED <<now, facts, userCategories, userFacts, notifications, dist, retry, call, redis, scheduler>>

\* the response is out; the slot takes the next request
CloseRequest(q) ==
  /\ requests[q].pc = "done"
  /\ requests' = [requests EXCEPT ![q] = IdleRequest]
  /\ UNCHANGED <<now, users, facts, userCategories, userFacts, notifications, dist, retry, call, redis, scheduler>>

NextLike ==
  \/ \E q \in RequestSlots, u \in Users, f \in LikeFacts : StartToggleLike(q, u, f)
  \/ \E q \in RequestSlots : FindUserFact(q)
  \/ \E q \in RequestSlots : UpsertUserFact(q)
  \/ \E q \in RequestSlots : UpdateLikeCount(q)
  \/ \E q \in RequestSlots : FinishToggleLike(q)
  \/ \E q \in RequestSlots : CloseRequest(q)

SpecLike == InitLike /\ [][NextLike]_vars

(***************************************************************************)
(* SpecCalls: calls of start(), stop() and scheduleJob() in any order and  *)
(* state; call is the last call, with the scheduler it found.              *)
(***************************************************************************)
\* the names scheduleJob is called with: the six of start() and one more
ScheduleNames == JobNames \cup {"custom-job"}

SchedulerCall(op, name, effect) ==
  /\ call' = [op |-> op, name |-> name, before |-> scheduler,
              scheduled |-> effect.scheduled, destroyed |-> effect.destroyed]
  /\ scheduler' = effect.scheduler
  /\ UNCHANGED <<now, users, facts, userCategories, userFacts, notifications, dist, retry, redis, requests>>

CallStart == SchedulerCall("start", "", startCall(scheduler))

CallStop == SchedulerCall("stop", "", stopCall(scheduler))

CallScheduleJob(name) == SchedulerCall("scheduleJob", name, scheduleJobCall(scheduler, name))

NextCalls ==
  \/ CallStart
  \/ CallStop
  \/ \E name \in ScheduleNames : CallScheduleJob(name)

SpecCalls == InitJobs /\ [][NextCalls]_vars

(***************************************************************************)
(* SpecRecommend: calls of getRecommendedFacts with a profile, on the      *)
(* tables of SpecP (the peer u2 has Science enabled and likes at most one  *)
(* fact).                                                                  *)
(***************************************************************************)
CallGetRecommendedFacts(u, categories, limit, fails) ==
  /\ call.op = "none"
  /\ \E list \in getRecommendedFacts(u, ProfileOf(categories), limit, fails) :
       call' = [op |-> "getRecommendedFacts", user |-> u, limit |-> limit, fails |-> fails,
                similarUsers |-> findSimilarUsers(u, ProfileOf(categories), fails),
                result |-> list]
  /\ UNCHANGED <<now, users, facts, userCategories, userFacts, notifications, dist, retry, redis, scheduler, requests>>

NextRecommend ==
  \/ \E categories \in CategorySets, limit \in 1..MaxLimit,
        fails \in {{}, {"similar.findMany"}, {"recommended.findMany"}} :
       CallGetRecommendedFacts("u1", categories, limit, fails)
  \/ ReturnToCaller

SpecRecommend == InitP /\ [][NextRecommend]_vars

(***************************************************************************)
(* SpecStreak: the daily job updateUserStreaks, one user of its list at a  *)
(* time, while requests of the users set lastActiveDate.  call is the run: *)
(* the rows findMany returned that the loop has still to go through.       *)
(***************************************************************************)
MaxStreak == 2

\* toDateString(): the day a time lies in
DayOf(t) == t \div MinutesPerDay

\* the last-active times of a user when the job starts: never, two days ago,
\* yesterday, today
LastActiveTimes == {NoTime, 10, MinutesPerDay + 10, 2 * MinutesPerDay + 10}

InitStreak ==
  /\ now = 2 * MinutesPerDay + 60
  /\ \E last \in LastActiveTimes, streak \in 0..MaxStreak, more \in 0..1, active \in BOOLEAN :
       users = [u \in Users |->
                  IF u = "u1"
                  THEN [UserRow(MaxCap, TRUE) EXCEPT !.lastActiveDate = last,
                          !.currentStreak = streak, !.longestStreak = streak + more]
                  ELSE [UserRow(MaxCap, TRUE) EXCEPT !.isActive = active,
                          !.lastActiveDate = 10, !.currentStreak = MaxStreak,
                          !.longestStreak = MaxStreak]]
  /\ facts = [f \in FactIds |-> FactRow(f, "ok", FALSE, 0, 0)]
  /\ userCategories = [u \in Users |-> {}]
  /\ userFacts = [u \in Users |-> [f \in FactIds |-> NoInteraction]]
  /\ notifications = <<>>
  /\ dist = [w \in Workers |-> IdleWorker]
  /\ retry = [r \in Runners |-> IdleRunner]
  /\ call = NoCall
  /\ redis = EmptyCache
  /\ scheduler = NewScheduler
  /\ requests = NoRequests

\* select: { id, currentStreak, longestStreak, lastActiveDate }
StreakSnapshot(u) ==
  [id |-> u, currentStreak |-> users[u].currentStreak,
   longestStreak |-> users[u].longestStreak, lastActiveDate |-> users[u].lastActiveDate]

\* the users table in the order findMany returns it
UserOrder == <<"u1", "u2">>

\* findMany({ where: { isActive: true } }); today = new Date()
StartUpdateUserStreaks ==
  /\ call.op = "none"
  /\ LET active(u) == users[u].isActive
         list == SelectSeq(UserOrder, active)
     IN call' = [op |-> "updateUserStreaks", today |-> now,
                 users |-> [k \in 1..Len(list) |-> StreakSnapshot(list[k])]]
  /\ UNCHANGED <<now, users, facts, userCategories, userFacts, notifications, dist, retry, redis, scheduler, requests>>

\* mutant: a user last active yesterday is reset as well
newStreak_strict(user, today) ==
  IF DayOf(user.lastActiveDate) = DayOf(today)
  THEN IF user.currentStreak = 0 THEN 1 ELSE user.currentStreak
  ELSE IF user.currentStreak > 0 THEN 0 ELSE user.currentStreak

\* newStreak of the loop body for a user with a lastActiveDate.  wasActiveToday
\* and wasActiveYesterday are never both true.
newStreak(user, today) ==
  LET wasActiveYesterday == DayOf(user.lastActiveDate) = DayOf(today) - 1
      wasActiveToday == DayOf(user.lastActiveDate) = DayOf(today)
  IN IF wasActiveToday
     THEN IF wasActiveYesterday THEN user.currentStreak
          ELSE IF user.currentStreak = 0 THEN 1 ELSE user.currentStreak
     ELSE IF ~wasActiveYesterday /\ user.currentStreak > 0 THEN 0
     ELSE user.currentStreak

\* one iteration of the for loop: continue when lastActiveDate is null, the
\* update when newStreak differs from the streak read
UpdateUserStreak ==
  /\ call.op = "updateUserStreaks"
  /\ call.users # <<>>
  /\ LET user == Head(call.users)
         streak == newStreak(user, call.today)
     IN users' = IF user.lastActiveDate # NoTime /\ streak # user.currentStreak
                 THEN [users EXCEPT ![user.id].currentStreak = streak,
                                    ![user.id].longestStreak = Max(user.longestStreak, streak)]
                 ELSE users
  /\ call' = [call EXCEPT !.users = Tail(call.users)]
  /\ UNCHANGED <<now, facts, userCategories, userFacts, notifications, dist, retry, redis, scheduler, requests>>

\* logger.info('User streaks update completed')
FinishUpdateUserStreaks ==
  /\ call.op = "updateUserStreaks"
  /\ call.users = <<>>
  /\ call' = NoCall
  /\ UNCHANGED <<now, users, facts, userCategories, userFacts, notifications, dist, retry, redis, scheduler, requests>>

\* a request of the user: data: { lastActiveDate: new Date() }
RecordActivity(u) ==
  /\ users[u].lastActiveDate # now
  /\ users' = [users EXCEPT ![u].lastActiveDate = now]
  /\ UNCHANGED <<now, facts, userCategories, userFacts, notifications, dist, retry, call, redis, scheduler, requests>>

NextStreak ==
  \/ StartUpdateUserStreaks
  \/ UpdateUserStreak
  \/ FinishUpdateUserStreaks
  \/ \E u \in Users : RecordActivity(u)

SpecStreak == InitStreak /\ [][NextStreak]_vars

(***************************************************************************)
(* SpecOverlap: the retry job with two runs that may overlap (node-cron    *)
(* starts a tick whether or not the one before it has returned), next to a *)
(* run of the distribution for a user.                                     *)
(***************************************************************************)
OverlapRunners == {"r1", "r2"}
OverlapWorkers == {"w1"}

\* the rows at the start: FAILED and due with no or two retries behind it,
\* SENT, or PENDING
OverlapRows ==
  {<<"FAILED", 0, 0>>, <<"FAILED", MaxRetries - 1, 0>>, <<"SENT", 0, NoTime>>,
   <<"PENDING", 0, NoTime>>}

InitOverlap ==
  /\ now = 0
  /\ \E e \in BOOLEAN :
       users = [u \in Users |-> UserRow(MaxCap, IF u = "u1" THEN e ELSE TRUE)]
  /\ facts = [f \in FactIds |-> FactRow(f, "ok", FALSE, 0, 0)]
  /\ userCategories = [u \in Users |-> {}]
  /\ userFacts = [u \in Users |-> [f \in FactIds |-> NoInteraction]]
  /\ \E n \in 1..Cardinality(Users) : \E rows \in [1..n -> OverlapRows] :
       notifications = [i \in 1..n |->
          NotificationRow(i, IF i % 2 = 1 THEN "u1" ELSE "u2", rows[i][1], "yesterday",
                          rows[i][2], rows[i][3])]
  /\ dist = [w \in OverlapWorkers |-> IdleWorker]
  /\ retry = [r \in OverlapRunners |-> IdleRunner]
  /\ call = NoCall
  /\ redis = EmptyCache
  /\ scheduler = NewScheduler
  /\ requests = NoRequests

NextOverlap ==
  \/ \E r \in OverlapRunners : StartRetryFailedNotifications(r)
  \/ \E r \in OverlapRunners : RetryNotification(r)
  \/ \E r \in OverlapRunners : FinishRetryFailedNotifications(r)
  \/ \E u \in {"u1"}, e \in BOOLEAN : updateNotificationSettings(u, e)
  \/ \E w \in OverlapWorkers : StartSendDailyFactToUser(w, "u1")
  \/ \E w \in OverlapWorkers : CountTodayNotifications(w)
  \/ \E w \in OverlapWorkers : SelectFact(w)
  \/ \E w \in OverlapWorkers : sendDailyFactNotification(w)
  \/ \E w \in OverlapWorkers : ThrowInSendDailyFactToUser(w)
  \/ \E w \in OverlapWorkers : FinishSendDailyFactToUser(w)

SpecOverlap == InitOverlap /\ [][NextOverlap]_vars

(***************************************************************************)
(* Properties.                                                             *)
(***************************************************************************)
\* the notification rows of user u
UserNotifications(u) ==
  {notifications[i] : i \in {k \in 1..Len(notifications) : notifications[k].userId = u}}

\* the user's notifications of today with status SENT or DELIVERED
SentToday(u) ==
  Cardinality({n \in UserNotifications(u) :
                 n.createdAt = "today" /\ n.status \in {"SENT", "DELIVERED"}})

\* C1: while a user has maxNotificationsPerDay or more SENT/DELIVERED
\* notifications today, no step changes the user's notification rows, and a
\* worker that runs the count query for the user returns at once (or ends in
\* the catch block when the query throws): no fact selected, no send, no record.
C1_CappedUserIsSkipped ==
  [][\A u \in Users :
       SentToday(u) >= users[u].maxNotificationsPerDay =>
         /\ UserNotifications(u)' = UserNotifications(u)
         /\ \A w \in Workers :
              (dist[w].pc = "count" /\ dist[w].user = u /\ dist'[w] # dist[w]) =>
                /\ dist'[w].pc = "done"
                /\ dist'[w].outcome \in {"capped", "caught"}
                /\ dist'[w].fact = NoFact
                /\ dist'[w].result = "none"
                /\ dist'[w].record = 0]_vars

\* C1 witness: a worker has skipped a user who is at the cap
C1_Witness ==
  \E w \in Workers :
    /\ dist[w].pc = "done"
    /\ dist[w].outcome = "capped"
    /\ SentToday(dist[w].user) >= users[dist[w].user].maxNotificationsPerDay

C3_RetryCountBounded ==
  \A i \in 1..Len(notifications) : notifications[i].retryCount <= 3

\* C3 witness: the retry job has brought a notification to retryCount 3
C3_Witness ==
  \E i \in 1..Len(notifications) :
    /\ notifications[i].status = "FAILED"
    /\ notifications[i].retryCount = 3
    /\ notifications[i].nextRetryAt > 0

C5_FailedSendIsScheduledForRetry ==
  \A w \in Workers :
    (dist[w].pc = "done" /\ dist[w].result \notin {"none", "success"}) =>
      /\ dist[w].record \in 1..Len(notifications)
      /\ notifications[dist[w].record].status = "FAILED"
      /\ notifications[dist[w].record].retryCount < 3
      /\ notifications[dist[w].record].nextRetryAt # NoTime

\* C6: a run that found a fact for a user under the cap ends with a
\* notification record of that user and fact that holds the outcome: SENT
\* with sentAt, or FAILED with the error.
C6_OutcomeRecorded ==
  \A w \in Workers :
    (dist[w].pc = "done" /\ dist[w].fact # NoFact) =>
      /\ dist[w].record \in 1..Len(notifications)
      /\ notifications[dist[w].record].userId = dist[w].user
      /\ notifications[dist[w].record].factId = dist[w].fact
      /\ \/ /\ notifications[dist[w].record].status = "SENT"
            /\ notifications[dist[w].record].sentAt # NoTime
         \/ /\ notifications[dist[w].record].status = "FAILED"
            /\ notifications[dist[w].record].errorMessage # ""

\* a fact that is approved, active and published at or before now
IsEligibleFact(f) ==
  /\ facts[f].isApproved
  /\ facts[f].isActive
  /\ facts[f].publishedAt # NoTime
  /\ facts[f].publishedAt <= now

\* C7: a run skips a user under the cap for lack of a fact only when no
\* eligible fact exists at all.
C7_SkippedOnlyWithoutEligibleFact ==
  \A w \in Workers :
    (dist[w].pc = "done" /\ dist[w].outcome = "nofact") =>
      \A f \in FactIds : ~IsEligibleFact(f)

\* (featured desc, like count desc, view count desc): a must come before b
C8_Before(a, b) ==
  \/ facts[a].isFeatured /\ ~facts[b].isFeatured
  \/ /\ facts[a].isFeatured = facts[b].isFeatured
     /\ facts[a].likeCount > facts[b].likeCount
  \/ /\ facts[a].isFeatured = facts[b].isFeatured
     /\ facts[a].likeCount = facts[b].likeCount
     /\ facts[a].viewCount > facts[b].viewCount

C9_NoViewedFactReturned ==
  (call.op = "getPersonalizedFacts" /\ call.excludeViewed /\ call.user \in Users) =>
    \A k \in 1..Len(call.result) : ~userFacts[call.user][call.result[k]].isViewed

C11_ScoreInUnitInterval ==
  call.op = "calculateFactScore" => (0 <= call.score /\ call.score <= ScoreUnit)

\* C11 witness: a fact created in the future, of the profile's difficulty, its
\* category fully engaged and its counters high, scores exactly 1
C11_Witness ==
  /\ call.op = "calculateFactScore"
  /\ facts[call.fact].createdAt > now
  /\ facts[call.fact].categoryId \in call.profile.preferredCategories
  /\ call.profile.categoryPreferences[facts[call.fact].categoryId] = ScoreUnit
  /\ facts[call.fact].viewCount >= 100
  /\ call.score = ScoreUnit


\* the number of facts of the list with the category of fact f
C12_CategoryCount(list, f) ==
  Cardinality({k \in 1..Len(list) : facts[list[k]].categoryId = facts[f].categoryId})

\* C12: for limit >= 6 no category appears in the diversified list more than
\* max(1, floor(limit/3)) times, unless the greedy pass over the list admits
\* fewer than limit facts, so that backfill is needed to reach limit.
C12_CategoryCap ==
  (/\ call.op = "addDiversityToSelection"
   /\ call.limit >= 6
   /\ Len(GreedyPass(call.list, 1, <<>>, call.limit)) >= call.limit) =>
    \A k \in 1..Len(call.result) :
      C12_CategoryCount(call.result, call.result[k]) <= Max(1, call.limit \div 3)

\* C12 witness: the greedy pass filled a list of limit facts after it had
\* passed over a fact whose category was at the cap
C12_Witness ==
  /\ call.op = "addDiversityToSelection"
  /\ call.limit >= 6
  /\ Len(call.list) > call.limit
  /\ Len(call.result) = call.limit
  /\ Len(GreedyPass(call.list, 1, <<>>, call.limit)) = call.limit
  /\ \E f \in Range(call.list) \ Range(call.result) :
       /\ f < call.result[Len(call.result)]
       /\ C12_CategoryCount(call.result, f) = Max(1, call.limit \div 3)


\* C13: in the scenario getPersonalizedFacts with limit 6 returns only facts
\* of Science or History, and neither category more than 2 times.
C13_ScenarioSelection ==
  (call.op = "getPersonalizedFacts" /\ call.user = "u1" /\ call.limit = 6) =>
    /\ \A k \in 1..Len(call.result) :
         facts[call.result[k]].categoryId \in {"Science", "History"}
    /\ \A c \in {"Science", "History"} :
         Cardinality({k \in 1..Len(call.result) : facts[call.result[k]].categoryId = c}) <= 2


C15_ProfileNullOnlyOnFailure ==
  call.op = "getUserProfile" =>
    /\ ~call.threw
    /\ ~call.profile.exists <=> (call.user \notin Users \/ call.failed)


\* the local time of day of user u falls in the UTC hour h: some minute of
\* that hour, moved by the offset of the user's timezone, is the time
C16_LocalTimeInUtcHour(u, h) ==
  \E minute \in 0..59 :
    (h * 60 + minute + users[u].utcOffset - users[u].dailyNotificationTime) % (24 * 60) = 0

\* C16: a tick includes a user only if the user's notification time, taken in
\* the user's timezone and converted to UTC, falls in the tick's UTC hour; a
\* user set to 09:00 at UTC+5 is included at hour 4 and not at hour 5.
C16_HourMatch ==
  call.op = "distributeDailyFacts" =>
    /\ \A u \in call.usersToNotify : C16_LocalTimeInUtcHour(u, call.currentHour)
    /\ \A u \in Users :
         (/\ users[u].dailyNotificationTime = 9 * 60
          /\ users[u].utcOffset = 5 * 60
          /\ users[u].isActive
          /\ users[u].notificationsEnabled
          /\ users[u].weekendNotifications) =>
           /\ call.currentHour = 4 => u \in call.usersToNotify
           /\ call.currentHour = 5 => u \notin call.usersToNotify

\* C16 witness: the tick at UTC hour 4 includes a user set to 09:30 at UTC+5:30
\* and a user set to 09:00 at UTC+5
C16_Witness ==
  /\ call.op = "distributeDailyFacts"
  /\ call.currentHour = 4
  /\ "u1" \in call.usersToNotify
  /\ "u2" \in call.usersToNotify
  /\ users["u1"].dailyNotificationTime = 9 * 60 + 30
  /\ users["u1"].utcOffset = 5 * 60 + 30


\* the delay in minutes after the retry of a notification with retryCount r
C17_Delay(r) == CASE r = 0 -> 10 [] r = 1 -> 20 [] r = 2 -> 40

C18_UserFailureIsolated ==
  call.op = "distributeDailyFacts" =>
    /\ call.status = "threw" => call.usersToNotify = <<>>
    /\ call.status \in {"completed", "threw"} =>
         \A k \in 1..Len(call.usersToNotify) : dist[k].pc = "done"
    /\ \A k \in 1..Len(call.usersToNotify) : dist[k].outcome # "rejected"

\* a completed tick in which the call for the first user threw, a user of the
\* same batch and a user of a later batch ran through
C18_Witness ==
  /\ call.op = "distributeDailyFacts" /\ call.status = "completed"
  /\ Len(call.usersToNotify) > batchSize
  /\ dist[1].outcome = "caught"
  /\ dist[batchSize].outcome = "returned"
  /\ dist[batchSize + 1].outcome = "returned"

\* C19: when the handler of a job throws during a tick the wrapper catches the
\* error: the step leaves the job and every other job registered and scheduled
\* and the scheduler running, touches the run of no other job, and the job's
\* next tick runs (unless the scheduler is stopped first).
C19_HandlerErrorContained ==
  /\ [][\A name \in JobNames :
          (scheduler.runs[name].pc = "running" /\ scheduler'.runs[name].outcome = "caught"
             /\ scheduler'.runs[name].pc = "idle") =>
            /\ scheduler'.jobs = scheduler.jobs
            /\ scheduler'.isRunning = scheduler.isRunning
            /\ name \in DOMAIN scheduler.jobs => scheduler'.jobs[name] = "scheduled"
            /\ \A other \in JobNames \ {name} : scheduler'.runs[other] = scheduler.runs[other]]_vars
  /\ \A name \in JobNames :
       (scheduler.runs[name].pc = "idle" /\ scheduler.runs[name].outcome = "caught")
         ~> (scheduler.runs[name].pc = "running" \/ name \notin DOMAIN scheduler.jobs)

\* the distribution job runs again after a run of it threw, while another job
\* is in the middle of a run
C19_Witness ==
  /\ scheduler.isRunning
  /\ scheduler.runs["daily-facts-distribution"] = [pc |-> "running", outcome |-> "caught"]
  /\ scheduler.runs["retry-failed-notifications"].pc = "running"

\* C20: a history of the last seven days with one view or more, all at one
\* timestamp, has consistencyScore 1.
C20_SingleTimestampScore ==
  (call.op = "calculateConsistencyScore" /\ Cardinality(call.viewDates) = 1) =>
    call.score = ScoreUnit

\* the +1 or -1 a request has still to add to likeCount: its upsert is done,
\* its fact.update is not
C21_Pending(f) ==
  LET waiting(liked) == Cardinality({q \in RequestSlots :
        requests[q].pc = "fact.update" /\ requests[q].fact = f
        /\ requests[q].newLikedState = liked})
  IN waiting(TRUE) - waiting(FALSE)

\* C21: a (user, fact) pair never has a second interaction row, and as long as
\* no two toggles of one user for one fact have overlapped, likeCount moves with
\* the like flags: +1 with every like and -1 with every unlike, so that a
\* second toggle after the first brings back both isLiked and likeCount.
C21_ToggleLike ==
  /\ [](\A u \in Users, f \in LikeFacts : Cardinality(UserFactRows(userFacts, u, f)) <= 1)
  /\ [][\A q \in RequestSlots :
          (requests[q].pc = "upsert" /\ requests'[q].pc = "fact.update" /\ ~call.overlapped) =>
            /\ (requests[q].user \in Likers(userFacts', requests[q].fact))
                 = ~(requests[q].user \in Likers(userFacts, requests[q].fact))
            /\ Cardinality(UserFactRows(userFacts', requests[q].user, requests[q].fact)) = 1]_vars
  /\ [](~call.overlapped =>
          \A f \in LikeFacts :
            facts[f].likeCount + C21_Pending(f) = Cardinality(Likers(userFacts, f)))

\* a toggle that created the row of its pair and raised likeCount to 1 has been
\* answered, and no toggles have overlapped
C21_Witness ==
  /\ ~call.overlapped
  /\ \E q \in RequestSlots :
       /\ requests[q].pc = "done" /\ requests[q].status = 200
       /\ requests[q].newLikedState
       /\ facts[requests[q].fact].likeCount = 1
       /\ Len(userFacts) = 1

\* the notifications a run of the retry job still has in its list
C22_Listed(r) == {retry[r].failedNotifications[k].id : k \in 1..Len(retry[r].failedNotifications)}

\* C22: the step of the retry job that cancels a notification is the processing
\* of a FAILED notification read with its user's notifications disabled; it
\* changes the status only (retryCount and nextRetryAt stay), the run goes on
\* with the rest of its list, and a CANCELLED notification is changed by no
\* step and is in the list of no tick that starts afterwards.
C22_CancelOnDisabledUser ==
  [][\A i \in 1..Len(notifications) :
       /\ (notifications[i].status # "CANCELLED" /\ notifications'[i].status = "CANCELLED") =>
            /\ notifications[i].status = "FAILED"
            /\ notifications'[i] = [notifications[i] EXCEPT !.status = "CANCELLED"]
            /\ \E r \in Runners :
                 /\ retry[r].pc = "loop"
                 /\ Head(retry[r].failedNotifications).id = i
                 /\ ~Head(retry[r].failedNotifications).userEnabled
                 /\ retry'[r].pc = "loop"
                 /\ retry'[r].failedNotifications = Tail(retry[r].failedNotifications)
       /\ notifications[i].status = "CANCELLED" =>
            /\ notifications'[i] = notifications[i]
            /\ \A r \in Runners :
                 i \in {retry'[r].failedNotifications[k].id :
                          k \in 1..Len(retry'[r].failedNotifications)} => i \in C22_Listed(r)
       /\ \A r \in Runners :
            (retry[r].pc = "loop" /\ retry[r].failedNotifications # <<>>
               /\ Head(retry[r].failedNotifications).id = i
               /\ ~Head(retry[r].failedNotifications).userEnabled
               /\ notifications[i].status = "FAILED"
               /\ retry'[r].failedNotifications # retry[r].failedNotifications
               /\ retry'[r].pc = "loop") =>
              notifications'[i].status = "CANCELLED"]_vars

\* a due notification with retries left is CANCELLED, and a tick that started
\* after the one that cancelled it is going through its own list
C22_Witness ==
  \E i \in 1..Len(notifications), r \in Runners :
    /\ notifications[i].status = "CANCELLED"
    /\ notifications[i].retryCount < 3
    /\ notifications[i].nextRetryAt # NoTime
    /\ retry[r].pc = "loop"
    /\ retry[r].failedNotifications # <<>>
    /\ i \notin C22_Listed(r)

\* the last call was one the scheduler answers with a warning
C23_Redundant ==
  \/ call.op = "start" /\ call.before.isRunning
  \/ call.op = "stop" /\ ~call.before.isRunning
  \/ call.op = "scheduleJob" /\ call.name \in DOMAIN call.before.jobs

\* C23: start() on a running scheduler, stop() on one that is not running and
\* scheduleJob() with a registered name leave the running flag and the
\* registered jobs as they were, schedule no task and destroy none.
C23_RedundantCallsChangeNothing ==
  C23_Redundant =>
    /\ scheduler.isRunning = call.before.isRunning
    /\ scheduler.jobs = call.before.jobs
    /\ call.scheduled = {}
    /\ call.destroyed = {}

\* stop() was called on a scheduler that was not running and had a job
\* registered
C23_Witness ==
  /\ call.op = "stop"
  /\ ~call.before.isRunning
  /\ call.before.jobs # <<>>
  /\ scheduler.jobs = call.before.jobs

\* the eligible facts of the user's difficulty
C24_AtDifficulty(u) ==
  {f \in AllFacts : IsEligibleFact(f)
                    /\ facts[f].difficulty = DifficultyOrMedium(users[u].difficultyLevel)}

\* those of them in the user's enabled categories (any category when the user
\* has enabled none) that the user has not seen
C24_FirstQuery(u) ==
  {f \in C24_AtDifficulty(u) :
     /\ userCategories[u] # {} => facts[f].categoryId \in userCategories[u]
     /\ ~userFacts[u][f].isViewed}

\* C24: the scheduler's selection returns a fact of the first query (unseen,
\* enabled categories, the user's difficulty) when there is one; when there is
\* none it returns an eligible fact of the user's difficulty, seen or not and
\* of any category, and null only when no such fact exists.
C24_FallbackDropsUnseenAndCategory ==
  (call.op = "getPersonalizedFact" /\ ~call.failed) =>
    IF C24_FirstQuery(call.user) # {}
    THEN Len(call.result) = 1 /\ call.result[1] \in C24_FirstQuery(call.user)
    ELSE IF C24_AtDifficulty(call.user) # {}
    THEN Len(call.result) = 1 /\ call.result[1] \in C24_AtDifficulty(call.user)
    ELSE call.result = <<>>

\* C25: when getRecommendedFacts finds no similar peers, or finds peers none of
\* whom likes a fact, it returns the global fallback list cut to limit.
C25_FallbackWithoutRecommendations ==
  (call.op = "getRecommendedFacts"
     /\ \A v \in call.similarUsers : \A f \in AllFacts : ~userFacts[v][f].isLiked) =>
    call.result \in getFallbackFacts(call.limit, call.fails)

\* the streak the job gives a user it read with a last-active date
C26_Streak(user, today) ==
  CASE DayOf(user.lastActiveDate) = DayOf(today) /\ user.currentStreak = 0 -> 1
    [] DayOf(user.lastActiveDate) = DayOf(today) /\ user.currentStreak > 0 -> user.currentStreak
    [] DayOf(user.lastActiveDate) = DayOf(today) - 1 -> user.currentStreak
    [] OTHER -> IF user.currentStreak > 0 THEN 0 ELSE user.currentStreak

\* C26: the streak job gives each active user it read with a last-active date
\* the streak 1 (last active today, streak 0), the same streak (last active
\* today with a positive streak, or yesterday) or 0 (neither, streak > 0);
\* a write makes longestStreak the larger of its old value and the new streak;
\* no step lowers longestStreak or changes the streaks of any other user.
C26_StreakJob ==
  [][\A u \in Users :
       /\ users'[u].longestStreak >= users[u].longestStreak
       /\ IF call.op = "updateUserStreaks" /\ call.users # <<>> /\ call'.users # call.users
             /\ Head(call.users).id = u /\ Head(call.users).lastActiveDate # NoTime
          THEN /\ users[u].isActive
               /\ users'[u].currentStreak = C26_Streak(Head(call.users), call.today)
               /\ users'[u].longestStreak =
                    IF users'[u].currentStreak # users[u].currentStreak
                    THEN Max(users[u].longestStreak, users'[u].currentStreak)
                    ELSE users[u].longestStreak
          ELSE /\ users'[u].currentStreak = users[u].currentStreak
               /\ users'[u].longestStreak = users[u].longestStreak]_vars

\* the job has reset the streak of u1 and kept the longest streak
C26_Witness ==
  /\ call.op = "updateUserStreaks"
  /\ call.users = <<>>
  /\ users["u1"].currentStreak = 0
  /\ users["u1"].longestStreak = MaxStreak + 1
  /\ users["u2"].currentStreak = 0

\* the changes of status the two jobs make
C27_Moves == {<<"PENDING", "SENT">>, <<"PENDING", "FAILED">>, <<"FAILED", "CANCELLED">>}

\* C27: under the distribution and the retry job the status of a notification
\* moves only PENDING -> SENT, PENDING -> FAILED or FAILED -> CANCELLED, a
\* notification that is SENT or CANCELLED is changed by no step, and sentAt is
\* set exactly on the notifications that are SENT.
C27_StatusMachine ==
  /\ [](\A i \in 1..Len(notifications) :
          notifications[i].sentAt # NoTime <=> notifications[i].status = "SENT")
  /\ [][\A i \in 1..Len(notifications) :
          /\ notifications'[i].status # notifications[i].status =>
               <<notifications[i].status, notifications'[i].status>> \in C27_Moves
          /\ notifications[i].status \in {"SENT", "CANCELLED"} =>
               notifications'[i] = notifications[i]]_vars

\* C28: also when two runs of the retry job overlap and both have read a FAILED
\* notification before either writes it, no notification gets a retryCount
\* above 3.
C28_RetryCountBoundedUnderOverlap ==
  \A i \in 1..Len(notifications) : notifications[i].retryCount <= 3

C30_SelectionShape ==
  (call.op = "addDiversityToSelection" /\ call.limit >= 1) =>
    /\ Len(call.result) = Min(call.limit, Len(call.list))
    /\ Range(call.result) \subseteq Range(call.list)
    /\ \A i \in 1..Len(call.result) : \A j \in 1..Len(call.result) :
         call.result[i] = call.result[j] => i = j
    /\ call.result[1] = call.list[1]

\* C30 witness: the list is longer than limit, the greedy pass stopped short
\* of limit and the backfill added a fact the pass had passed over
C30_Witness ==
  /\ call.op = "addDiversityToSelection"
  /\ call.limit < Len(call.list)
  /\ Len(GreedyPass(call.list, 1, <<>>, call.limit)) < call.limit
  /\ Len(call.result) = call.limit


====
